---- MODULE Spec2Model ----
(***************************************************************************)
(* Model of the spoken-dialogue pipeline of clone_pro:                     *)
(*   - ears_stt/run_stt_server.py : the STT server (gate, registry,        *)
(*     transcription worker, broadcast)                                    *)
(*   - controller.py              : the controller (connect/retry loop,    *)
(*     one turn per transcript)                                            *)
(*   - api_server/tts_server.py   : the TTS server (admission semaphore)   *)
(* Spec      is the STT server together with one controller.               *)
(* SpecTTS   is the TTS server with its request handlers and warm-up task. *)
(* SpecHub   is the STT server's registry under several clients and        *)
(*           concurrent broadcasts; SpecGate is its gate under the         *)
(*           clients' messages.                                            *)
(* SpecReply is one connection of the TTS server and its replies.          *)
(* SpecPlay  is the controller's synthesis and playback of one response of *)
(*           the language model.                                           *)
(* SpecWorker is the STT server's transcription worker thread, its         *)
(*           recognition sessions and the shutdown of the process.         *)
(* SpecSplit is the controller's _split_sentences over a buffer that grows *)
(*           fragment by fragment.                                         *)
(* SpecVoice is the TTS server's synthesis calls on the shared model       *)
(*           (api_server/cosyvoice_engine.py) and its speaker weights.     *)
(* SpecEngine is the TTS server's _get_engine under concurrent callers.    *)
(***************************************************************************)
EXTENDS Integers, Sequences, FiniteSets, TLC

VARIABLES
    \* ---- STT server (ears_stt/run_stt_server.py)
    srvUp,              \* the STT server process is running
    listening_event,    \* threading.Event: TRUE = LISTENING, FALSE = PAUSED
    connected_clients,  \* registry of websocket connections
    srvHandler,         \* websocket_handler of the controller's connection runs
    gateHist,           \* the gate states taken since the process started
    workerPc,           \* transcription_worker: "gate_wait" | "session"
    agPc,               \* audio_generator: "check" | "read"
    recAudio,           \* chunks given to the recognizer, not yet finalised
    nextUtt,            \* number of the next transcript the recognizer yields
    loopQueue,          \* broadcast_text coroutines scheduled on the loop
    \* ---- the websocket between controller and STT server
    conn,               \* the connection is open
    closeKind,          \* how it was closed: "ok" (1000/1001) | "error"
    c2s,                \* commands sent by the controller, not yet handled
    s2c,                \* messages received by the controller, not yet read
    lateTexts,          \* transcripts that reached the controller between its
                        \* PAUSE_LISTENING and its RESUME_LISTENING (history)
    \* ---- controller (controller.py)
    ctlPc,              \* position in run_controller
    retry_count,
    cur,                \* the transcript of the turn in progress
    cmdLog,             \* commands the controller attempted on this connection
    turnLog,            \* what the current (or last) turn did, in order
    ctlDiag,            \* the last diagnostic run_controller printed
    processing_lock,    \* asyncio.Lock: TRUE = held
    \* ---- TTS server (api_server/tts_server.py)
    TTS_MAX_CONCURRENCY,\* the environment variable
    semCreated,         \* _infer_semaphore is not None
    semValue,           \* free permits of _infer_semaphore
    hPc,                \* position of each task (request handlers, warm-up)
    hStream,            \* the stream flag of each task's request
    \* ---- STT server with several clients (websocket_handler, broadcast_text)
    hubConn,            \* each client's connection: "new" | "open" | "closed"
    hubHandler,         \* each client's websocket_handler: "none" | "running" | "exited"
    hubIn,              \* the messages each client has received, in order
    hubCmds,            \* messages the handlers have processed
    hubLast,            \* the message processed last
    bTask,              \* the broadcast_text coroutines
    \* ---- one connection of the TTS server and its replies (websocket_handler)
    rPc,                \* position of the connection's handler
    rServed,            \* messages the handler has read on this connection
    rReq,               \* the kind of the message the handler read last
    rStream,            \* the stream flag of that request
    rReply,             \* what the handler has sent in reply to it, in order
    rFail,              \* the engine raised while serving it
    \* ---- controller: synthesis and playback of one response
    ENABLE_FACE_ANIMATION, \* the environment variable
    playPc,             \* position in stream_to_tts / _infer_and_play_tts
    playCalls,          \* calls of _infer_and_play_tts made for the response
    audio_chunks,       \* the chunks received for the call in progress
    played_realtime,
    playOut,            \* what was written to the audio device, in order
    genOutcome,         \* what the generation call of the response did
    full_response,      \* the text the controller took from the LLM server's reply
    playTexts,          \* the texts handed to _infer_and_play_tts, in order
    playMode,           \* the reply of the call: "none" | "stream" | "batch"
    \* ---- STT server process: async_main, transcription_worker, the engine
    stop_event,         \* threading.Event set by async_main on shutdown
    mainPc,             \* async_main: "serving" | "closing" | "exited"
    wPc,                \* position of the transcription_worker thread
    capStream,          \* engine.stream, the capture stream: "none" | "open" | "closed"
    gen,                \* audio_generator: "none" | "check" | "read" | "ended"
    frames,             \* frames given to the recognizer since the last transcript
    sessions,           \* streaming sessions opened
    lastResp,           \* the response process_responses handled last
    scheduled,          \* transcripts handed to broadcast_text, in order
    reported,           \* the last diagnostic the worker printed
    \* ---- controller (controller.py): _split_sentences over a growing buffer
    srcText,            \* the text of the response
    fedLen,             \* how many of its characters have arrived
    accBuffer,          \* the buffer: the last remainder
    accUnits,           \* the units extracted so far
    splitPc,            \* "idle", "feeding", "flushed"
    lastInput,          \* the buffer of the last call of _split_sentences
    lastSplit,          \* what that call returned
    \* ---- TTS server: the speaker of the shared model (cosyvoice_engine.py)
    vPc,                \* position of each task's synthesis call
    vSpeaker,           \* the speaker each task's call asks for
    lora_llm,           \* the speaker whose weights the model's llm module holds
    lora_flow,          \* the speaker whose weights the model's flow module holds
    spk2info,           \* the speakers whose embedding is registered
    \* ---- TTS server: _get_engine (api_server/tts_server.py)
    tts_engine,         \* the global: 0 = None, else the number of the instance
    engine_lock,        \* _engine_lock: "none" | "free" | "held"
    ePc,                \* position of each task in _get_engine
    eGot,               \* the instance each task's call returned (0 = none)
    constructed         \* instances of CosyVoiceEngine constructed so far

earsVars == <<srvUp, listening_event, connected_clients, srvHandler, gateHist, workerPc,
              agPc, recAudio, nextUtt, loopQueue>>
chanVars == <<conn, closeKind, c2s, s2c, lateTexts>>
ctlVars  == <<ctlPc, retry_count, cur, cmdLog, turnLog, ctlDiag, processing_lock>>
ttsVars  == <<TTS_MAX_CONCURRENCY, semCreated, semValue, hPc, hStream>>
hubVars  == <<hubConn, hubHandler, hubIn, hubCmds, hubLast, bTask>>
replyVars == <<rPc, rServed, rReq, rStream, rReply, rFail>>
playVars == <<ENABLE_FACE_ANIMATION, playPc, playCalls, audio_chunks, played_realtime, playOut,
              genOutcome, full_response, playTexts, playMode>>
workVars == <<stop_event, mainPc, wPc, capStream, gen, frames, sessions, lastResp, scheduled,
              reported>>
splitVars == <<srcText, fedLen, accBuffer, accUnits, splitPc, lastInput, lastSplit>>
voiceVars == <<vPc, vSpeaker, lora_llm, lora_flow, spk2info>>
engVars  == <<tts_engine, engine_lock, ePc, eGot, constructed>>
vars     == <<earsVars, chanVars, ctlVars, ttsVars, hubVars, replyVars, playVars, workVars,
              splitVars, voiceVars, engVars>>

(***************************************************************************)
(* Bounds of the model.                                                    *)
(***************************************************************************)
MaxTranscripts == 2     \* transcripts the recognizer yields in one run
MaxAudio == 1           \* unfinalised chunks the recognizer holds
MaxHandlers == 2        \* TTS connections served at once
MaxEnvConcurrency == 2  \* largest TTS_MAX_CONCURRENCY tried
MaxClients == 2         \* connections made to the STT server in one run
MaxBroadcasts == 2      \* broadcast_text coroutines in one run
MaxCommands == 2        \* messages the STT server's handlers process in one run
MaxChunks == 4          \* audio chunks of one streamed synthesis
MaxRequests == 2        \* messages read on one TTS connection
MaxText == 3            \* characters of a generated response
MaxFrames == 2          \* frames given to the recognizer between two transcripts
MaxSessions == 2        \* streaming sessions opened before shutdown
MaxBuffer == 4          \* characters of a text given to _split_sentences
MaxConstructs == 2      \* constructions of CosyVoiceEngine followed in one run
MaxGateChanges == 2     \* gate changes commanded while the worker runs

(***************************************************************************)
(* Program constants.                                                      *)
(***************************************************************************)
max_retries == 3

\* The one websocket the controller holds (the registry holds connections).
CTL == "controller"

(***************************************************************************)
(* Messages on the control/transcript channel.                             *)
(***************************************************************************)
AckMsg == [kind |-> "ack", val |-> 0]
StateMsg(listening) == [kind |-> "state", val |-> IF listening THEN 1 ELSE 0]
TextMsg(i) == [kind |-> "text", val |-> i]

\* controller.py: a message that is neither empty nor ACK:/STATE: is a transcript
IsStatus(m) == m.kind \in {"ack", "state"}

\* websocket.send: delivered when the connection is open, else it raises
SendOk == conn

\* the controller has issued PAUSE_LISTENING for its turn and not yet the
\* RESUME_LISTENING that ends it
BetweenPauseAndResume == ctlPc \in {"llm", "tts", "resume"}

(***************************************************************************)
(* STT server: websocket_handler.                                          *)
(***************************************************************************)
\* lines 57-63: register the connection, send ACK and "STATE: LISTENING"
HandlerHello ==
    /\ connected_clients' = connected_clients \cup {CTL}
    /\ srvHandler' = TRUE
    /\ s2c' = <<AckMsg, StateMsg(TRUE)>>

\* lines 71-75: PAUSE_LISTENING changes the gate only when it is LISTENING
HandlePause ==
    IF listening_event
    THEN /\ listening_event' = FALSE
         /\ gateHist' = Append(gateHist, "PAUSED")
         /\ IF SendOk
            THEN /\ s2c' = Append(s2c, StateMsg(FALSE))
                 /\ c2s' = Tail(c2s)
                 /\ UNCHANGED <<connected_clients, srvHandler>>
            ELSE \* send raises ConnectionClosed: except, finally discard
                 /\ connected_clients' = connected_clients \ {CTL}
                 /\ srvHandler' = FALSE
                 /\ c2s' = <<>>
                 /\ UNCHANGED s2c
    ELSE /\ c2s' = Tail(c2s)
         /\ UNCHANGED <<listening_event, gateHist, s2c, connected_clients, srvHandler>>

\* lines 77-81: RESUME_LISTENING changes the gate only when it is PAUSED
HandleResume ==
    IF ~listening_event
    THEN /\ listening_event' = TRUE
         /\ gateHist' = Append(gateHist, "LISTENING")
         /\ IF SendOk
            THEN /\ s2c' = Append(s2c, StateMsg(TRUE))
                 /\ c2s' = Tail(c2s)
                 /\ UNCHANGED <<connected_clients, srvHandler>>
            ELSE /\ connected_clients' = connected_clients \ {CTL}
                 /\ srvHandler' = FALSE
                 /\ c2s' = <<>>
                 /\ UNCHANGED s2c
    ELSE /\ c2s' = Tail(c2s)
         /\ UNCHANGED <<listening_event, gateHist, s2c, connected_clients, srvHandler>>

\* lines 65-84: one iteration of "async for message in websocket"
SrvHandle ==
    /\ srvUp /\ srvHandler /\ c2s # <<>>
    /\ IF Head(c2s) = "PAUSE_LISTENING" THEN HandlePause ELSE HandleResume
    /\ UNCHANGED <<srvUp, workerPc, agPc, recAudio, nextUtt, loopQueue,
                   conn, closeKind, lateTexts, ctlVars, ttsVars, hubVars, replyVars, playVars, workVars, splitVars, voiceVars, engVars>>

\* lines 86-90: the iteration ends on a closed connection; finally discards
SrvHandlerExit ==
    /\ srvUp /\ srvHandler /\ ~conn
    /\ connected_clients' = connected_clients \ {CTL}
    /\ srvHandler' = FALSE
    /\ c2s' = <<>>
    /\ UNCHANGED <<srvUp, listening_event, gateHist, workerPc, agPc, recAudio,
                   nextUtt, loopQueue, conn, closeKind, lateTexts, s2c, ctlVars, ttsVars, hubVars, replyVars, playVars, workVars, splitVars, voiceVars, engVars>>

(***************************************************************************)
(* STT server: broadcast_text, run on the event loop.                      *)
(***************************************************************************)
\* lines 93-110: send to every registered client, drop the ones that fail
broadcast_text ==
    /\ srvUp /\ loopQueue # <<>>
    /\ loopQueue' = Tail(loopQueue)
    /\ IF CTL \in connected_clients
       THEN IF SendOk
            THEN /\ s2c' = Append(s2c, TextMsg(Head(loopQueue)))
                 /\ lateTexts' = IF BetweenPauseAndResume
                                 THEN lateTexts \cup {Head(loopQueue)}
                                 ELSE lateTexts
                 /\ UNCHANGED connected_clients
            ELSE /\ connected_clients' = connected_clients \ {CTL}
                 /\ UNCHANGED <<s2c, lateTexts>>
       ELSE UNCHANGED <<s2c, lateTexts, connected_clients>>
    /\ UNCHANGED <<srvUp, listening_event, srvHandler, gateHist, workerPc, agPc,
                   recAudio, nextUtt, conn, closeKind, c2s, ctlVars, ttsVars, hubVars, replyVars, playVars, workVars, splitVars, voiceVars, engVars>>

(***************************************************************************)
(* STT server: transcription_worker thread and SpeechToTextEngine.         *)
(***************************************************************************)
\* lines 324-339: wait for the gate, then open a streaming session
WorkerOpenSession ==
    /\ srvUp /\ workerPc = "gate_wait" /\ listening_event
    /\ workerPc' = "session" /\ agPc' = "check" /\ recAudio' = 0
    /\ UNCHANGED <<srvUp, listening_event, connected_clients, srvHandler, gateHist,
                   nextUtt, loopQueue, chanVars, ctlVars, ttsVars, hubVars, replyVars, playVars, workVars, splitVars, voiceVars, engVars>>

\* audio_generator lines 244-248: the gate is read before each capture read
AudioCheck ==
    /\ srvUp /\ workerPc = "session" /\ agPc = "check" /\ listening_event
    /\ agPc' = "read"
    /\ UNCHANGED <<srvUp, listening_event, connected_clients, srvHandler, gateHist,
                   workerPc, recAudio, nextUtt, loopQueue, chanVars, ctlVars, ttsVars, hubVars, replyVars, playVars, workVars, splitVars, voiceVars, engVars>>

\* audio_generator lines 250-264: blocking read, then the chunk is yielded
AudioRead ==
    /\ srvUp /\ workerPc = "session" /\ agPc = "read"
    /\ agPc' = "check"
    /\ recAudio' = IF recAudio < MaxAudio THEN recAudio + 1 ELSE recAudio
    /\ UNCHANGED <<srvUp, listening_event, connected_clients, srvHandler, gateHist,
                   workerPc, nextUtt, loopQueue, chanVars, ctlVars, ttsVars, hubVars, replyVars, playVars, workVars, splitVars, voiceVars, engVars>>

\* lines 342-347: a final transcript is scheduled for broadcast as it arrives
WorkerHandOff ==
    /\ loopQueue' = Append(loopQueue, nextUtt)

\* process_responses lines 269-283 and the loop at 342: the recognizer
\* finalises the audio it holds and the worker hands the transcript over
RecognizerFinal ==
    /\ srvUp /\ workerPc = "session" /\ recAudio > 0
    /\ nextUtt <= MaxTranscripts
    /\ WorkerHandOff
    /\ nextUtt' = nextUtt + 1
    /\ recAudio' = 0
    /\ UNCHANGED <<srvUp, listening_event, connected_clients, srvHandler, gateHist,
                   workerPc, agPc, chanVars, ctlVars, ttsVars, hubVars, replyVars, playVars, workVars, splitVars, voiceVars, engVars>>

\* lines 349-353: the session raises (audio timeout, stream limit); after
\* the wait the outer loop starts over
SessionError ==
    /\ srvUp /\ workerPc = "session"
    /\ workerPc' = "gate_wait" /\ agPc' = "check" /\ recAudio' = 0
    /\ UNCHANGED <<srvUp, listening_event, connected_clients, srvHandler, gateHist,
                   nextUtt, loopQueue, chanVars, ctlVars, ttsVars, hubVars, replyVars, playVars, workVars, splitVars, voiceVars, engVars>>

(***************************************************************************)
(* STT server process: shutdown (async_main finally) and start.            *)
(***************************************************************************)
\* lines 392-416: stop the worker, close the server and every connection
SrvShutdown ==
    /\ srvUp
    /\ srvUp' = FALSE
    /\ connected_clients' = {}
    /\ srvHandler' = FALSE
    /\ loopQueue' = <<>>
    /\ workerPc' = "gate_wait" /\ agPc' = "check" /\ recAudio' = 0
    /\ c2s' = <<>>
    /\ IF conn THEN conn' = FALSE /\ closeKind' = "ok"
               ELSE UNCHANGED <<conn, closeKind>>
    /\ UNCHANGED <<listening_event, gateHist, nextUtt, s2c, lateTexts, ctlVars, ttsVars, hubVars, replyVars, playVars, workVars, splitVars, voiceVars, engVars>>

\* lines 43-45 and 370-385: a new process starts LISTENING with no clients
SrvStart ==
    /\ ~srvUp
    /\ srvUp' = TRUE
    /\ listening_event' = TRUE
    /\ gateHist' = <<>>
    /\ UNCHANGED <<connected_clients, srvHandler, workerPc, agPc, recAudio, nextUtt,
                   loopQueue, chanVars, ctlVars, ttsVars, hubVars, replyVars, playVars, workVars, splitVars, voiceVars, engVars>>

\* the network: the connection is lost without a close handshake
ConnDrop ==
    /\ conn
    /\ conn' = FALSE /\ closeKind' = "error"
    /\ UNCHANGED <<earsVars, c2s, s2c, lateTexts, ctlVars, ttsVars, hubVars, replyVars, playVars, workVars, splitVars, voiceVars, engVars>>

(***************************************************************************)
(* Controller: run_controller and one turn (controller.py).                *)
(***************************************************************************)
LLM_OUTCOMES == {"ok", "empty", "non200", "connect_error", "timeout", "exception"}
TTS_OUTCOMES == {"played", "tts_error", "unexpected", "refused", "timeout", "exception"}

\* websocket.send(cmd) inside try/except (468-472, 499-503, 513-519): the
\* attempt is made; it reaches the server only when the connection is open,
\* else the exception is caught and printed
CtlSend(cmd) ==
    /\ cmdLog' = Append(cmdLog, cmd)
    /\ c2s' = IF SendOk THEN Append(c2s, cmd) ELSE c2s
    /\ ctlDiag' = IF SendOk THEN ctlDiag ELSE "send_failed"

\* RetryOrStop as if the budget were never checked
RetryOrStop_Unbounded(diag) ==
    /\ retry_count' = retry_count + 1
    /\ ctlDiag' = diag
    /\ ctlPc' = "backoff"

\* lines 524-531 and 543-551: count the failure; sleep and retry while the
\* budget lasts, else leave the loop
RetryOrStop(diag) ==
    /\ retry_count' = retry_count + 1
    /\ ctlDiag' = diag
    /\ ctlPc' = IF retry_count + 1 < max_retries THEN "backoff" ELSE "stopped"

\* CtlConnectOk as if a successful connection reset the retry counter
CtlConnectOk_ResetsCount ==
    /\ ctlPc = "connecting" /\ srvUp /\ ~srvHandler
    /\ conn' = TRUE /\ closeKind' = "none"
    /\ HandlerHello
    /\ c2s' = <<>>
    /\ lateTexts' = {}
    /\ cmdLog' = <<>>
    /\ retry_count' = 0
    /\ ctlPc' = "on_connect"
    /\ UNCHANGED <<srvUp, listening_event, gateHist, workerPc, agPc, recAudio, nextUtt,
                   loopQueue, cur, processing_lock, turnLog, ctlDiag, ttsVars, hubVars, replyVars, playVars, workVars, splitVars, voiceVars, engVars>>

\* line 465: websockets.connect succeeds; the server's handler starts (the
\* model holds one connection: the handler of the previous one has ended)
CtlConnectOk ==
    /\ ctlPc = "connecting" /\ srvUp /\ ~srvHandler
    /\ conn' = TRUE /\ closeKind' = "none"
    /\ HandlerHello
    /\ c2s' = <<>>
    /\ lateTexts' = {}
    /\ cmdLog' = <<>>
    /\ ctlPc' = "on_connect"
    /\ UNCHANGED <<srvUp, listening_event, gateHist, workerPc, agPc, recAudio, nextUtt,
                   loopQueue, retry_count, cur, processing_lock, turnLog, ctlDiag, ttsVars, hubVars, replyVars, playVars, workVars, splitVars, voiceVars, engVars>>

\* lines 533-541: ConnectionRefusedError prints the checklist and breaks
CtlConnectRefused ==
    /\ ctlPc = "connecting" /\ ~srvUp
    /\ ctlDiag' = "refused"
    /\ ctlPc' = "stopped"
    /\ UNCHANGED <<earsVars, chanVars, retry_count, cur, processing_lock, cmdLog, turnLog, ttsVars, hubVars, replyVars, playVars, workVars, splitVars, voiceVars, engVars>>

\* CtlConnectError as if a failed attempt were retried without being counted
CtlConnectError_NoCount ==
    /\ ctlPc = "connecting"
    /\ ctlDiag' = "connect_error"
    /\ ctlPc' = "backoff"
    /\ UNCHANGED <<earsVars, chanVars, retry_count, cur, processing_lock, cmdLog, turnLog, ttsVars, hubVars, replyVars, playVars, workVars, splitVars, voiceVars, engVars>>

\* lines 543-551: any other failure of the connection attempt
CtlConnectError ==
    /\ ctlPc = "connecting"
    /\ RetryOrStop("connect_error")
    /\ UNCHANGED <<earsVars, chanVars, cur, processing_lock, cmdLog, turnLog, ttsVars, hubVars, replyVars, playVars, workVars, splitVars, voiceVars, engVars>>

\* lines 527-529 and 546-548: asyncio.sleep(3), then the loop connects again
CtlBackoff ==
    /\ ctlPc = "backoff"
    /\ ctlPc' = "connecting"
    /\ UNCHANGED <<earsVars, chanVars, retry_count, cur, processing_lock, cmdLog, turnLog, ctlDiag, ttsVars, hubVars, replyVars, playVars, workVars, splitVars, voiceVars, engVars>>

\* CtlOnConnect as if nothing were sent on a new connection
CtlOnConnect_NoResume ==
    /\ ctlPc = "on_connect"
    /\ ctlPc' = "recv"
    /\ UNCHANGED <<earsVars, chanVars, retry_count, cur, processing_lock, cmdLog, turnLog, ctlDiag, ttsVars, hubVars, replyVars, playVars, workVars, splitVars, voiceVars, engVars>>

\* lines 468-472: RESUME_LISTENING right after connecting
CtlOnConnect ==
    /\ ctlPc = "on_connect"
    /\ CtlSend("RESUME_LISTENING")
    /\ ctlPc' = "recv"
    /\ UNCHANGED <<earsVars, conn, closeKind, lateTexts, s2c, retry_count, cur,
                   processing_lock, turnLog, ttsVars, hubVars, replyVars, playVars, workVars, splitVars, voiceVars, engVars>>

\* CtlRecvMessage as if the next message were read while a turn is processed
CtlRecvMessage_Concurrent ==
    /\ ctlPc \in {"recv", "llm", "tts"} /\ s2c # <<>>
    /\ s2c' = Tail(s2c)
    /\ IF IsStatus(Head(s2c))
       THEN UNCHANGED <<ctlPc, cur, turnLog>>
       ELSE /\ cur' = Head(s2c).val
            /\ turnLog' = <<>>
            /\ ctlPc' = "pause"
    /\ UNCHANGED <<earsVars, conn, closeKind, lateTexts, c2s, retry_count, cmdLog, ctlDiag,
                   processing_lock, ttsVars, hubVars, replyVars, playVars, workVars, splitVars, voiceVars, engVars>>

\* CtlRecvMessage as if a STATE: line were taken for a transcript
CtlRecvMessage_StateStartsTurn ==
    /\ ctlPc = "recv" /\ s2c # <<>>
    /\ s2c' = Tail(s2c)
    /\ IF Head(s2c).kind = "ack"
       THEN UNCHANGED <<ctlPc, cur, turnLog>>
       ELSE /\ cur' = Head(s2c).val
            /\ turnLog' = <<>>
            /\ ctlPc' = "pause"
    /\ UNCHANGED <<earsVars, conn, closeKind, lateTexts, c2s, retry_count, cmdLog, ctlDiag,
                   processing_lock, ttsVars, hubVars, replyVars, playVars, workVars, splitVars, voiceVars, engVars>>

\* lines 474-497: the next message; ACK:/STATE: lines are only printed,
\* anything else is a transcript and starts a turn
CtlRecvMessage ==
    /\ ctlPc = "recv" /\ s2c # <<>>
    /\ s2c' = Tail(s2c)
    /\ IF IsStatus(Head(s2c))
       THEN UNCHANGED <<ctlPc, cur, turnLog>>
       ELSE /\ cur' = Head(s2c).val
            /\ turnLog' = <<>>
            /\ ctlPc' = "pause"
    /\ UNCHANGED <<earsVars, conn, closeKind, lateTexts, c2s, retry_count, cmdLog, ctlDiag,
                   processing_lock, ttsVars, hubVars, replyVars, playVars, workVars, splitVars, voiceVars, engVars>>

\* lines 521-522: the iteration ends on a clean close; break, no retry
CtlClosedOk ==
    /\ ctlPc = "recv" /\ s2c = <<>> /\ ~conn /\ closeKind = "ok"
    /\ ctlDiag' = "closed_ok"
    /\ ctlPc' = "stopped"
    /\ UNCHANGED <<earsVars, chanVars, retry_count, cur, processing_lock, cmdLog, turnLog, ttsVars, hubVars, replyVars, playVars, workVars, splitVars, voiceVars, engVars>>

\* CtlClosedError as if an abnormal close ended the loop like a clean one
CtlClosedError_Break ==
    /\ ctlPc = "recv" /\ s2c = <<>> /\ ~conn /\ closeKind = "error"
    /\ retry_count' = retry_count + 1
    /\ ctlDiag' = "closed_error"
    /\ ctlPc' = "stopped"
    /\ UNCHANGED <<earsVars, chanVars, cur, processing_lock, cmdLog, turnLog, ttsVars, hubVars, replyVars, playVars, workVars, splitVars, voiceVars, engVars>>

\* lines 524-531: the iteration raises ConnectionClosedError
CtlClosedError ==
    /\ ctlPc = "recv" /\ s2c = <<>> /\ ~conn /\ closeKind = "error"
    /\ RetryOrStop("closed_error")
    /\ UNCHANGED <<earsVars, chanVars, cur, processing_lock, cmdLog, turnLog, ttsVars, hubVars, replyVars, playVars, workVars, splitVars, voiceVars, engVars>>

\* CtlPause as if the turn were processed without pausing the gate first
CtlPause_NotSent ==
    /\ ctlPc = "pause" /\ ~processing_lock
    /\ processing_lock' = TRUE
    /\ turnLog' = Append(turnLog, "PAUSE")
    /\ ctlPc' = "llm"
    /\ UNCHANGED <<earsVars, chanVars, retry_count, cur, cmdLog, ctlDiag, ttsVars, hubVars, replyVars, playVars, workVars, splitVars, voiceVars, engVars>>

\* lines 499-506: PAUSE_LISTENING before the turn is processed, then
\* "async with processing_lock" is entered
CtlPause ==
    /\ ctlPc = "pause" /\ ~processing_lock
    /\ CtlSend("PAUSE_LISTENING")
    /\ processing_lock' = TRUE
    /\ turnLog' = Append(turnLog, "PAUSE")
    /\ ctlPc' = "llm"
    /\ UNCHANGED <<earsVars, conn, closeKind, lateTexts, s2c, retry_count, cur, ttsVars, hubVars, replyVars, playVars, workVars, splitVars, voiceVars, engVars>>

\* AfterLlm as if a failed generation call escaped the try/finally
AfterLlm_ErrorSkipsResume(outcome) ==
    IF outcome = "ok" THEN "tts" ELSE IF outcome = "empty" THEN "resume" ELSE "recv"

\* where the turn goes after the generation call: synthesis follows only a
\* 200 reply with non-blank text (handle_llm_response 403-421, stream_to_tts 388)
AfterLlm(outcome) == IF outcome = "ok" THEN "tts" ELSE "resume"

\* lines 506-510 with handle_llm_response 391-429: the generation request;
\* every failure is caught and printed
CtlLlm ==
    /\ ctlPc = "llm"
    /\ \E outcome \in LLM_OUTCOMES :
        /\ turnLog' = Append(turnLog, IF outcome \in {"ok", "empty"} THEN "GEN" ELSE "GEN_FAIL")
        /\ ctlPc' = AfterLlm(outcome)
    /\ UNCHANGED <<earsVars, chanVars, retry_count, cur, processing_lock, cmdLog, ctlDiag, ttsVars, hubVars, replyVars, playVars, workVars, splitVars, voiceVars, engVars>>

\* CtlTts as if a failure of synthesis or playback ended run_controller
CtlTts_FailureStops ==
    /\ ctlPc = "tts"
    /\ \E outcome \in TTS_OUTCOMES :
        /\ turnLog' = Append(turnLog, IF outcome = "played" THEN "PLAY" ELSE "TTS_FAIL")
        /\ ctlPc' = IF outcome = "played" THEN "resume" ELSE "stopped"
    /\ UNCHANGED <<earsVars, chanVars, retry_count, cur, processing_lock, cmdLog, ctlDiag, ttsVars, hubVars, replyVars, playVars, workVars, splitVars, voiceVars, engVars>>

\* stream_to_tts 371-389 with _infer_and_play_tts 209-368: synthesis and
\* playback; every failure is caught and printed
CtlTts ==
    /\ ctlPc = "tts"
    /\ \E outcome \in TTS_OUTCOMES :
        /\ turnLog' = Append(turnLog, IF outcome = "played" THEN "PLAY" ELSE "TTS_FAIL")
    /\ ctlPc' = "resume"
    /\ UNCHANGED <<earsVars, chanVars, retry_count, cur, processing_lock, cmdLog, ctlDiag, ttsVars, hubVars, replyVars, playVars, workVars, splitVars, voiceVars, engVars>>

\* CtlResume as if a failed send escaped the finally clause and the session
CtlResume_RaiseOnFail ==
    /\ ctlPc = "resume"
    /\ CtlSend("RESUME_LISTENING")
    /\ processing_lock' = FALSE
    /\ turnLog' = Append(turnLog, "RESUME")
    /\ ctlPc' = IF SendOk THEN "recv" ELSE "backoff"
    /\ UNCHANGED <<earsVars, conn, closeKind, lateTexts, s2c, retry_count, cur, ttsVars, hubVars, replyVars, playVars, workVars, splitVars, voiceVars, engVars>>

\* lines 511-519: the finally clause sends RESUME_LISTENING; the with block
\* ends and the lock is released
CtlResume ==
    /\ ctlPc = "resume"
    /\ CtlSend("RESUME_LISTENING")
    /\ processing_lock' = FALSE
    /\ turnLog' = Append(turnLog, "RESUME")
    /\ ctlPc' = "recv"
    /\ UNCHANGED <<earsVars, conn, closeKind, lateTexts, s2c, retry_count, cur, ttsVars, hubVars, replyVars, playVars, workVars, splitVars, voiceVars, engVars>>

(***************************************************************************)
(* The STT server with one controller.                                     *)
(***************************************************************************)
TtsIdle ==
    /\ TTS_MAX_CONCURRENCY = 1
    /\ semCreated = FALSE
    /\ semValue = 0
    /\ hPc = <<>>
    /\ hStream = <<>>

EarsInit ==
    /\ srvUp = TRUE
    /\ listening_event = TRUE
    /\ connected_clients = {}
    /\ srvHandler = FALSE
    /\ gateHist = <<>>
    /\ workerPc = "gate_wait"
    /\ agPc = "check"
    /\ recAudio = 0
    /\ nextUtt = 1
    /\ loopQueue = <<>>
    /\ conn = FALSE
    /\ closeKind = "none"
    /\ c2s = <<>>
    /\ s2c = <<>>
    /\ lateTexts = {}
    /\ ctlPc = "connecting"
    /\ retry_count = 0
    /\ cur = 0
    /\ cmdLog = <<>>
    /\ turnLog = <<>>
    /\ ctlDiag = "none"
    /\ processing_lock = FALSE

\* no client of the several-client model has connected
HubInit ==
    /\ hubConn = [c \in 1..MaxClients |-> "new"]
    /\ hubHandler = [c \in 1..MaxClients |-> "none"]
    /\ hubIn = [c \in 1..MaxClients |-> <<>>]
    /\ hubCmds = 0
    /\ hubLast = [cmd |-> "none", binary |-> FALSE]
    /\ bTask = [b \in 1..MaxBroadcasts |->
                 [pc |-> "new", clients |-> {}, todo |-> {}, sent |-> {},
                  disconnected |-> {}, absent |-> {}]]

\* the connection of the reply model is open and has read nothing
ReplyInit ==
    /\ rPc = "idle"
    /\ rServed = 0
    /\ rReq = "none"
    /\ rStream = FALSE
    /\ rReply = <<>>
    /\ rFail = FALSE

\* no response is being played
PlayIdle ==
    /\ ENABLE_FACE_ANIMATION = FALSE
    /\ playPc = "idle"
    /\ playCalls = 0
    /\ audio_chunks = <<>>
    /\ played_realtime = FALSE
    /\ playOut = <<>>
    /\ genOutcome = "none"
    /\ full_response = <<>>
    /\ playTexts = <<>>
    /\ playMode = "none"

\* the STT server process of the worker model has not been started
WorkIdle ==
    /\ stop_event = FALSE
    /\ mainPc = "serving"
    /\ wPc = "init"
    /\ capStream = "none"
    /\ gen = "none"
    /\ frames = <<>>
    /\ sessions = 0
    /\ lastResp = [results |-> FALSE, alternatives |-> FALSE, is_final |-> FALSE,
                   transcript |-> <<>>]
    /\ scheduled = <<>>
    /\ reported = "none"

\* no synthesis call has been made on the shared model
VoiceIdle ==
    /\ vPc = [t \in 0..MaxHandlers |-> "idle"]
    /\ vSpeaker = [t \in 0..MaxHandlers |-> "none"]
    /\ lora_llm = "none"
    /\ lora_flow = "none"
    /\ spk2info = {}

\* tts_server.py lines 11-12 and 162: no engine, no lock
EngIdle ==
    /\ tts_engine = 0
    /\ engine_lock = "none"
    /\ ePc = [t \in 0..MaxHandlers |-> "idle"]
    /\ eGot = [t \in 0..MaxHandlers |-> 0]
    /\ constructed = 0

\* no text is being split
SplitIdle ==
    /\ srcText = <<>>
    /\ fedLen = 0
    /\ accBuffer = <<>>
    /\ accUnits = <<>>
    /\ splitPc = "idle"
    /\ lastInput = <<>>
    /\ lastSplit = [sentences |-> <<>>, remainder |-> <<>>]

Init == EarsInit /\ TtsIdle /\ HubInit /\ ReplyInit /\ PlayIdle /\ WorkIdle /\ SplitIdle /\ VoiceIdle /\ EngIdle

Next ==
    \/ SrvHandle
    \/ SrvHandlerExit
    \/ broadcast_text
    \/ WorkerOpenSession
    \/ AudioCheck
    \/ AudioRead
    \/ RecognizerFinal
    \/ SessionError
    \/ SrvShutdown
    \/ SrvStart
    \/ ConnDrop
    \/ CtlConnectOk
    \/ CtlConnectRefused
    \/ CtlConnectError
    \/ CtlBackoff
    \/ CtlOnConnect
    \/ CtlRecvMessage
    \/ CtlClosedOk
    \/ CtlClosedError
    \/ CtlPause
    \/ CtlLlm
    \/ CtlTts
    \/ CtlResume

Spec == Init /\ [][Next]_vars

(***************************************************************************)
(* TTS server (api_server/tts_server.py): request handlers, the warm-up    *)
(* task and the admission semaphore.                                       *)
(***************************************************************************)
WARMUP == 0
Handlers == 1..MaxHandlers
Tasks == Handlers \cup {WARMUP}

\* line 46: asyncio.Semaphore(max(1, max_concurrency))
Capacity == IF TTS_MAX_CONCURRENCY > 1 THEN TTS_MAX_CONCURRENCY ELSE 1

\* positions inside "async with sem" (lines 101-153, 177-178)
InSem == {"send_start", "engine", "send_done", "send_complete", "send_pcm"}
Held == {t \in Tasks : hPc[t] \in InSem}
\* asyncio.to_thread(engine...) is running for these tasks
EngineCalls == {t \in Tasks : hPc[t] = "engine"}

\* __aexit__ of "async with sem": the permit goes back
Release == semValue' = semValue + 1

\* lines 78-97: a valid request arrives on an idle connection
HRequest(h) ==
    /\ h \in Handlers /\ hPc[h] = "idle"
    /\ \E stream \in BOOLEAN : hStream' = [hStream EXCEPT ![h] = stream]
    /\ hPc' = [hPc EXCEPT ![h] = "get_sem"]
    /\ UNCHANGED <<earsVars, chanVars, ctlVars, hubVars, replyVars, playVars, workVars, splitVars, voiceVars, engVars, TTS_MAX_CONCURRENCY, semCreated, semValue>>

\* _get_infer_semaphore lines 42-47: created on first use, from the environment
GetSem(t) ==
    /\ hPc[t] = "get_sem"
    /\ IF semCreated
       THEN UNCHANGED <<semCreated, semValue>>
       ELSE semCreated' = TRUE /\ semValue' = Capacity
    /\ hPc' = [hPc EXCEPT ![t] = "acquire"]
    /\ UNCHANGED <<earsVars, chanVars, ctlVars, hubVars, replyVars, playVars, workVars, splitVars, voiceVars, engVars, TTS_MAX_CONCURRENCY, hStream>>

\* Acquire as if the permit were taken without waiting for a free one
Acquire_NoWait(t) ==
    /\ hPc[t] = "acquire"
    /\ semValue' = semValue - 1
    /\ hPc' = [hPc EXCEPT ![t] = IF t # WARMUP /\ hStream[t] THEN "send_start" ELSE "engine"]
    /\ UNCHANGED <<earsVars, chanVars, ctlVars, hubVars, replyVars, playVars, workVars, splitVars, voiceVars, engVars, TTS_MAX_CONCURRENCY, semCreated, hStream>>

\* lines 101 and 177: __aenter__ of "async with sem" waits for a free permit
Acquire(t) ==
    /\ hPc[t] = "acquire" /\ semValue > 0
    /\ semValue' = semValue - 1
    /\ hPc' = [hPc EXCEPT ![t] = IF t # WARMUP /\ hStream[t] THEN "send_start" ELSE "engine"]
    /\ UNCHANGED <<earsVars, chanVars, ctlVars, hubVars, replyVars, playVars, workVars, splitVars, voiceVars, engVars, TTS_MAX_CONCURRENCY, semCreated, hStream>>

\* lines 104-114: the "start" header of a streamed reply; a failed send
\* leaves the with block and the handler (the error reply fails as well)
HSendStart(h) ==
    /\ h \in Handlers /\ hPc[h] = "send_start"
    /\ \/ /\ hPc' = [hPc EXCEPT ![h] = "engine"]
          /\ UNCHANGED semValue
       \/ /\ Release
          /\ hPc' = [hPc EXCEPT ![h] = "idle"]
    /\ UNCHANGED <<earsVars, chanVars, ctlVars, hubVars, replyVars, playVars, workVars, splitVars, voiceVars, engVars, TTS_MAX_CONCURRENCY, semCreated, hStream>>

\* lines 117-129: the streaming thread ends; an exception is swallowed
HStreamEnd(h) ==
    /\ h \in Handlers /\ hPc[h] = "engine" /\ hStream[h]
    /\ hPc' = [hPc EXCEPT ![h] = "send_done"]
    /\ UNCHANGED <<earsVars, chanVars, ctlVars, hubVars, replyVars, playVars, workVars, splitVars, voiceVars, engVars, TTS_MAX_CONCURRENCY, semCreated, semValue, hStream>>

\* lines 131-134: "done" is sent, a failure swallowed; the with block ends
HSendDone(h) ==
    /\ h \in Handlers /\ hPc[h] = "send_done"
    /\ Release
    /\ hPc' = [hPc EXCEPT ![h] = "idle"]
    /\ UNCHANGED <<earsVars, chanVars, ctlVars, hubVars, replyVars, playVars, workVars, splitVars, voiceVars, engVars, TTS_MAX_CONCURRENCY, semCreated, hStream>>

\* line 137: synthesize_sft_pcm returns
HBatchReturn(h) ==
    /\ h \in Handlers /\ hPc[h] = "engine" /\ ~hStream[h]
    /\ hPc' = [hPc EXCEPT ![h] = "send_complete"]
    /\ UNCHANGED <<earsVars, chanVars, ctlVars, hubVars, replyVars, playVars, workVars, splitVars, voiceVars, engVars, TTS_MAX_CONCURRENCY, semCreated, semValue, hStream>>

\* HBatchRaise as if the permit were released only after a successful call
HBatchRaise_NoRelease(h) ==
    /\ h \in Handlers /\ hPc[h] = "engine" /\ ~hStream[h]
    /\ hPc' = [hPc EXCEPT ![h] = "idle"]
    /\ UNCHANGED <<earsVars, chanVars, ctlVars, hubVars, replyVars, playVars, workVars, splitVars, voiceVars, engVars, TTS_MAX_CONCURRENCY, semCreated, semValue, hStream>>

\* lines 137 and 155-156: synthesize_sft_pcm raises; the with block is left
\* and the error is reported
HBatchRaise(h) ==
    /\ h \in Handlers /\ hPc[h] = "engine" /\ ~hStream[h]
    /\ Release
    /\ hPc' = [hPc EXCEPT ![h] = "idle"]
    /\ UNCHANGED <<earsVars, chanVars, ctlVars, hubVars, replyVars, playVars, workVars, splitVars, voiceVars, engVars, TTS_MAX_CONCURRENCY, semCreated, hStream>>

\* lines 138-148: the "complete" header; a failed send leaves the with block
HSendComplete(h) ==
    /\ h \in Handlers /\ hPc[h] = "send_complete"
    /\ \/ /\ hPc' = [hPc EXCEPT ![h] = "send_pcm"]
          /\ UNCHANGED semValue
       \/ /\ Release
          /\ hPc' = [hPc EXCEPT ![h] = "idle"]
    /\ UNCHANGED <<earsVars, chanVars, ctlVars, hubVars, replyVars, playVars, workVars, splitVars, voiceVars, engVars, TTS_MAX_CONCURRENCY, semCreated, hStream>>

\* lines 149-153: audio and "done" are sent, a failure swallowed
HSendPcm(h) ==
    /\ h \in Handlers /\ hPc[h] = "send_pcm"
    /\ Release
    /\ hPc' = [hPc EXCEPT ![h] = "idle"]
    /\ UNCHANGED <<earsVars, chanVars, ctlVars, hubVars, replyVars, playVars, workVars, splitVars, voiceVars, engVars, TTS_MAX_CONCURRENCY, semCreated, hStream>>

\* _warmup_after_start lines 177-181: the warm-up call returns or raises
WarmupEnd ==
    /\ hPc[WARMUP] = "engine"
    /\ Release
    /\ hPc' = [hPc EXCEPT ![WARMUP] = "done"]
    /\ UNCHANGED <<earsVars, chanVars, ctlVars, hubVars, replyVars, playVars, workVars, splitVars, voiceVars, engVars, TTS_MAX_CONCURRENCY, semCreated, hStream>>

\* main lines 159-192: nothing is created yet; TTS_WARMUP decides whether
\* the warm-up task does anything
TtsInit ==
    /\ TTS_MAX_CONCURRENCY \in 0..MaxEnvConcurrency
    /\ semCreated = FALSE
    /\ semValue = 0
    /\ \E w \in {"get_sem", "done"} :
         hPc = [t \in Tasks |-> IF t = WARMUP THEN w ELSE "idle"]
    /\ hStream = [t \in Tasks |-> FALSE]

InitTTS == EarsInit /\ TtsInit /\ HubInit /\ ReplyInit /\ PlayIdle /\ WorkIdle /\ SplitIdle /\ VoiceIdle /\ EngIdle

NextTTS ==
    \/ \E h \in Handlers : HRequest(h)
    \/ \E t \in Tasks : GetSem(t)
    \/ \E t \in Tasks : Acquire(t)
    \/ \E h \in Handlers : HSendStart(h)
    \/ \E h \in Handlers : HStreamEnd(h)
    \/ \E h \in Handlers : HSendDone(h)
    \/ \E h \in Handlers : HBatchReturn(h)
    \/ \E h \in Handlers : HBatchRaise(h)
    \/ \E h \in Handlers : HSendComplete(h)
    \/ \E h \in Handlers : HSendPcm(h)
    \/ WarmupEnd

SpecTTS == InitTTS /\ [][NextTTS]_vars

\* every call into the engine returns, every send completes or fails, and
\* asyncio.Semaphore wakes its waiters in turn
FairTTS ==
    /\ \A h \in Handlers :
        /\ WF_vars(HSendStart(h)) /\ WF_vars(HStreamEnd(h)) /\ WF_vars(HSendDone(h))
        /\ WF_vars(HBatchReturn(h) \/ HBatchRaise(h))
        /\ WF_vars(HSendComplete(h)) /\ WF_vars(HSendPcm(h))
    /\ WF_vars(WarmupEnd)
    /\ \A t \in Tasks : WF_vars(GetSem(t)) /\ SF_vars(Acquire(t))

FairSpecTTS == SpecTTS /\ FairTTS

(***************************************************************************)
(* TTS server (api_server/tts_server.py, api_server/cosyvoice_engine.py):  *)
(* the synthesis calls on the one shared model. Every call runs in a       *)
(* thread of its own (asyncio.to_thread) while its task holds a permit; it *)
(* applies its speaker's weights to the model's modules, then runs the     *)
(* inference.                                                              *)
(***************************************************************************)
\* what the actions of this process leave alone
voiceRest == <<earsVars, chanVars, ctlVars, hubVars, replyVars, playVars, workVars, splitVars,
               engVars, TTS_MAX_CONCURRENCY, hPc, hStream>>

\* the speakers of the speaker configuration
SPEAKERS == {"spk_a", "spk_b"}
\* get_default_speaker: the configured default
DEFAULT_SPEAKER == "spk_a"
\* what a request can name: a configured speaker or one that is not
REQUESTED == SPEAKERS \cup {"unknown"}

\* tts_server.py lines 78-97: a request arrives and names its speaker
VRequest(h) ==
    /\ h \in Handlers /\ vPc[h] = "idle"
    /\ \E speaker \in REQUESTED : vSpeaker' = [vSpeaker EXCEPT ![h] = speaker]
    /\ vPc' = [vPc EXCEPT ![h] = "acquire"]
    /\ UNCHANGED <<voiceRest, semCreated, semValue, lora_llm, lora_flow, spk2info>>

\* lines 100-101 and 176-177: _get_infer_semaphore creates the semaphore on
\* first use; "async with sem" takes a permit when one is free
VAcquire(t) ==
    /\ vPc[t] = "acquire"
    /\ semCreated => semValue > 0
    /\ semCreated' = TRUE
    /\ semValue' = (IF semCreated THEN semValue ELSE Capacity) - 1
    /\ vPc' = [vPc EXCEPT ![t] = "load_llm"]
    /\ UNCHANGED <<voiceRest, vSpeaker, lora_llm, lora_flow, spk2info>>

\* cosyvoice_engine.py lines 164-181: load_speaker_lora raises KeyError for
\* a speaker that is not configured (the with block is left), else applies
\* the speaker's state dict to the llm module of the model
VLoadLlm(t) ==
    /\ vPc[t] = "load_llm"
    /\ IF vSpeaker[t] \notin SPEAKERS
       THEN /\ Release
            /\ vPc' = [vPc EXCEPT ![t] = IF t = WARMUP THEN "done" ELSE "idle"]
            /\ UNCHANGED lora_llm
       ELSE /\ lora_llm' = vSpeaker[t]
            /\ vPc' = [vPc EXCEPT ![t] = "load_flow"]
            /\ UNCHANGED semValue
    /\ UNCHANGED <<voiceRest, semCreated, vSpeaker, lora_flow, spk2info>>

\* lines 183-205: the state dict of the flow module is applied and the
\* speaker's embedding is registered under the speaker's name
VLoadFlow(t) ==
    /\ vPc[t] = "load_flow"
    /\ lora_flow' = vSpeaker[t]
    /\ spk2info' = spk2info \cup {vSpeaker[t]}
    /\ vPc' = [vPc EXCEPT ![t] = "infer"]
    /\ UNCHANGED <<voiceRest, semCreated, semValue, vSpeaker, lora_llm>>

\* lines 207-233 with tts_server.py 117-153 and 178: inference_sft returns
\* or raises, the reply is sent and the with block is left
VInferEnd(t) ==
    /\ vPc[t] = "infer"
    /\ Release
    /\ vPc' = [vPc EXCEPT ![t] = IF t = WARMUP THEN "done" ELSE "idle"]
    /\ UNCHANGED <<voiceRest, semCreated, vSpeaker, lora_llm, lora_flow, spk2info>>

\* main lines 159-192: TTS_WARMUP decides whether the warm-up task makes its
\* call, which asks for the default speaker
VoiceInit ==
    /\ \E w \in {"acquire", "done"} :
         vPc = [t \in Tasks |-> IF t = WARMUP THEN w ELSE "idle"]
    /\ vSpeaker = [t \in Tasks |-> IF t = WARMUP THEN DEFAULT_SPEAKER ELSE "none"]
    /\ lora_llm = "none"
    /\ lora_flow = "none"
    /\ spk2info = {}

\* the environment gives the capacity; nothing is created yet
VoiceSemInit ==
    /\ TTS_MAX_CONCURRENCY \in 0..MaxEnvConcurrency
    /\ semCreated = FALSE
    /\ semValue = 0
    /\ hPc = [t \in Tasks |-> IF t = WARMUP THEN "done" ELSE "idle"]
    /\ hStream = [t \in Tasks |-> FALSE]

InitVoice ==
    EarsInit /\ VoiceSemInit /\ HubInit /\ ReplyInit /\ PlayIdle /\ WorkIdle /\ SplitIdle
        /\ VoiceInit /\ EngIdle

NextVoice ==
    \/ \E h \in Handlers : VRequest(h)
    \/ \E t \in Tasks : VAcquire(t)
    \/ \E t \in Tasks : VLoadLlm(t)
    \/ \E t \in Tasks : VLoadFlow(t)
    \/ \E t \in Tasks : VInferEnd(t)

SpecVoice == InitVoice /\ [][NextVoice]_vars

(***************************************************************************)
(* TTS server (api_server/tts_server.py): _get_engine, called by the       *)
(* warm-up task and by every request handler. The coroutines run on one    *)
(* event loop: a step goes from one await to the next.                     *)
(***************************************************************************)
\* what the actions of this process leave alone
engRest == <<earsVars, chanVars, ctlVars, ttsVars, hubVars, replyVars, playVars, workVars,
             splitVars, voiceVars>>

\* the positions at which _get_engine has returned: lines 23, 28 and 32
RETURNED == {"return_23", "return_28", "return_32"}

\* EngCall as if the engine were constructed without taking the lock
EngCall_NoLock(t) ==
    /\ ePc[t] = "idle"
    /\ IF tts_engine # 0
       THEN /\ eGot' = [eGot EXCEPT ![t] = tts_engine]
            /\ ePc' = [ePc EXCEPT ![t] = "return_23"]
            /\ UNCHANGED engine_lock
       ELSE /\ ePc' = [ePc EXCEPT ![t] = "constructing"]
            /\ engine_lock' = "held"
            /\ UNCHANGED eGot
    /\ UNCHANGED <<engRest, tts_engine, constructed>>

\* lines 20-30: the engine is returned when there is one; else the lock is
\* created when there is none and taken when it is free (the second test
\* finds no engine, nothing ran in between, and the construction starts in
\* a thread), or the coroutine waits for it
EngCall(t) ==
    /\ ePc[t] = "idle"
    /\ IF tts_engine # 0
       THEN /\ eGot' = [eGot EXCEPT ![t] = tts_engine]
            /\ ePc' = [ePc EXCEPT ![t] = "return_23"]
            /\ UNCHANGED engine_lock
       ELSE IF engine_lock \in {"none", "free"}
            THEN /\ engine_lock' = "held"
                 /\ ePc' = [ePc EXCEPT ![t] = "constructing"]
                 /\ UNCHANGED eGot
            ELSE /\ ePc' = [ePc EXCEPT ![t] = "waiting"]
                 /\ UNCHANGED <<engine_lock, eGot>>
    /\ UNCHANGED <<engRest, tts_engine, constructed>>

\* lines 26-30: a waiter gets the lock; it returns the engine built in the
\* meantime (the with block is left) or starts the construction
EngAcquire(t) ==
    /\ ePc[t] = "waiting" /\ engine_lock = "free"
    /\ IF tts_engine # 0
       THEN /\ eGot' = [eGot EXCEPT ![t] = tts_engine]
            /\ ePc' = [ePc EXCEPT ![t] = "return_28"]
            /\ UNCHANGED engine_lock
       ELSE /\ engine_lock' = "held"
            /\ ePc' = [ePc EXCEPT ![t] = "constructing"]
            /\ UNCHANGED eGot
    /\ UNCHANGED <<engRest, tts_engine, constructed>>

\* lines 30-32: CosyVoiceEngine() returns in its thread: the global is set
\* and returned and the lock released
EngConstructed(t) ==
    /\ ePc[t] = "constructing" /\ constructed < MaxConstructs
    /\ constructed' = constructed + 1
    /\ tts_engine' = constructed + 1
    /\ eGot' = [eGot EXCEPT ![t] = constructed + 1]
    /\ engine_lock' = "free"
    /\ ePc' = [ePc EXCEPT ![t] = "return_32"]
    /\ UNCHANGED engRest

\* line 30: CosyVoiceEngine() raises: the lock is released, the global
\* stays None and the caller reports the error (lines 155-156, 180-181)
EngConstructRaises(t) ==
    /\ ePc[t] = "constructing"
    /\ engine_lock' = "free"
    /\ ePc' = [ePc EXCEPT ![t] = "raised"]
    /\ UNCHANGED <<engRest, tts_engine, eGot, constructed>>

\* lines 78-97: the next request of a connection calls _get_engine again
EngNextRequest(h) ==
    /\ h \in Handlers /\ ePc[h] \in RETURNED \cup {"raised"}
    /\ ePc' = [ePc EXCEPT ![h] = "idle"]
    /\ UNCHANGED <<engRest, tts_engine, engine_lock, eGot, constructed>>

\* main lines 159-192: no engine and no lock; TTS_WARMUP decides whether the
\* warm-up task calls _get_engine
EngInit ==
    /\ tts_engine = 0
    /\ engine_lock = "none"
    /\ \E w \in {"idle", "off"} :
         ePc = [t \in Tasks |-> IF t = WARMUP THEN w ELSE "idle"]
    /\ eGot = [t \in Tasks |-> 0]
    /\ constructed = 0

InitEngine ==
    EarsInit /\ TtsIdle /\ HubInit /\ ReplyInit /\ PlayIdle /\ WorkIdle /\ SplitIdle
        /\ VoiceIdle /\ EngInit

NextEngine ==
    \/ \E t \in Tasks : EngCall(t)
    \/ \E t \in Tasks : EngAcquire(t)
    \/ \E t \in Tasks : EngConstructed(t)
    \/ \E t \in Tasks : EngConstructRaises(t)
    \/ \E h \in Handlers : EngNextRequest(h)

SpecEngine == InitEngine /\ [][NextEngine]_vars

(***************************************************************************)
(* STT server with several clients (ears_stt/run_stt_server.py): the       *)
(* handlers of the connections and the broadcast_text coroutines share the *)
(* registry and the gate on one event loop; a coroutine can be suspended   *)
(* at each "await websocket.send".                                         *)
(* SpecHub  is the registry under connections and broadcasts.              *)
(* SpecGate is the gate and the registry under the clients' messages.      *)
(***************************************************************************)
Clients == 1..MaxClients
Broadcasts == 1..MaxBroadcasts

\* what a client can put on the connection: text frames and a binary frame
RAW_MESSAGES ==
    {[binary |-> FALSE, text |-> "PAUSE_LISTENING"],
     [binary |-> FALSE, text |-> " pause_listening\n"],
     [binary |-> FALSE, text |-> "RESUME_LISTENING"],
     [binary |-> FALSE, text |-> "Resume_Listening "],
     [binary |-> FALSE, text |-> "hello"],
     [binary |-> FALSE, text |-> ""],
     [binary |-> TRUE, text |-> "PAUSE_LISTENING"]}

\* line 69: message.strip().upper()
StripUpper(text) ==
    CASE text \in {"PAUSE_LISTENING", " pause_listening\n"} -> "PAUSE_LISTENING"
      [] text \in {"RESUME_LISTENING", "Resume_Listening "} -> "RESUME_LISTENING"
      [] text = "hello" -> "HELLO"
      [] OTHER -> text

\* "await websocket.send(msg)" in the handler of client c: delivered on an
\* open connection; on a closed one ConnectionClosed is raised, caught at
\* line 86, and the finally clause discards the client
HubNotify(c, msg) ==
    IF hubConn[c] = "open"
    THEN /\ hubIn' = [hubIn EXCEPT ![c] = Append(@, msg)]
         /\ UNCHANGED <<connected_clients, hubHandler>>
    ELSE /\ connected_clients' = connected_clients \ {c}
         /\ hubHandler' = [hubHandler EXCEPT ![c] = "exited"]
         /\ UNCHANGED hubIn

\* HubPause as if the notification were sent whether or not the gate changed
HubPause_AlwaysNotifies(c) ==
    /\ listening_event' = FALSE
    /\ gateHist' = IF listening_event THEN Append(gateHist, "PAUSED") ELSE gateHist
    /\ HubNotify(c, StateMsg(FALSE))

\* lines 71-75: PAUSE_LISTENING from client c
HubPause(c) ==
    IF listening_event
    THEN /\ listening_event' = FALSE
         /\ gateHist' = Append(gateHist, "PAUSED")
         /\ HubNotify(c, StateMsg(FALSE))
    ELSE UNCHANGED <<listening_event, gateHist, connected_clients, hubHandler, hubIn>>

\* lines 77-81: RESUME_LISTENING from client c
HubResume(c) ==
    IF ~listening_event
    THEN /\ listening_event' = TRUE
         /\ gateHist' = Append(gateHist, "LISTENING")
         /\ HubNotify(c, StateMsg(TRUE))
    ELSE UNCHANGED <<listening_event, gateHist, connected_clients, hubHandler, hubIn>>

\* lines 57-63: a client connects; it is registered and greeted
HubConnect(c) ==
    /\ hubConn[c] = "new"
    /\ c > 1 => hubConn[c - 1] # "new"
    /\ hubConn' = [hubConn EXCEPT ![c] = "open"]
    /\ hubHandler' = [hubHandler EXCEPT ![c] = "running"]
    /\ connected_clients' = connected_clients \cup {c}
    /\ hubIn' = [hubIn EXCEPT ![c] = <<AckMsg, StateMsg(TRUE)>>]
    /\ UNCHANGED <<srvUp, listening_event, srvHandler, gateHist, workerPc, agPc, recAudio,
                   nextUtt, loopQueue, chanVars, ctlVars, ttsVars, replyVars, playVars, workVars, splitVars, voiceVars, engVars, hubCmds, hubLast, bTask>>

\* lines 65-84: one iteration of "async for message in websocket" for a
\* message client c sent (it may have been received before the connection
\* closed)
HubMessage(c, m) ==
    /\ hubHandler[c] = "running" /\ hubCmds < MaxCommands
    /\ hubCmds' = hubCmds + 1
    /\ hubLast' = [cmd |-> StripUpper(m.text), binary |-> m.binary]
    /\ IF m.binary
       THEN UNCHANGED <<listening_event, gateHist, connected_clients, hubHandler, hubIn>>
       ELSE IF StripUpper(m.text) = "PAUSE_LISTENING" THEN HubPause(c)
       ELSE IF StripUpper(m.text) = "RESUME_LISTENING" THEN HubResume(c)
       ELSE UNCHANGED <<listening_event, gateHist, connected_clients, hubHandler, hubIn>>
    /\ UNCHANGED <<srvUp, srvHandler, workerPc, agPc, recAudio, nextUtt, loopQueue,
                   chanVars, ctlVars, ttsVars, replyVars, playVars, workVars, splitVars, voiceVars, engVars, hubConn, bTask>>

\* the network or the client closes the connection of client c
HubDrop(c) ==
    /\ hubConn[c] = "open"
    /\ hubConn' = [hubConn EXCEPT ![c] = "closed"]
    /\ UNCHANGED <<earsVars, chanVars, ctlVars, ttsVars, replyVars, playVars, workVars, splitVars, voiceVars, engVars, hubHandler, hubIn, hubCmds,
                   hubLast, bTask>>

\* lines 86-90: the iteration ends on the closed connection; finally discards
HubHandlerExit(c) ==
    /\ hubHandler[c] = "running" /\ hubConn[c] = "closed"
    /\ hubHandler' = [hubHandler EXCEPT ![c] = "exited"]
    /\ connected_clients' = connected_clients \ {c}
    /\ UNCHANGED <<srvUp, listening_event, srvHandler, gateHist, workerPc, agPc, recAudio,
                   nextUtt, loopQueue, chanVars, ctlVars, ttsVars, replyVars, playVars, workVars, splitVars, voiceVars, engVars, hubConn, hubIn, hubCmds,
                   hubLast, bTask>>

\* lines 97-101: broadcast_text(b) starts; it returns on an empty registry,
\* else it copies the registry into a list and begins the first send
BcastStart(b) ==
    /\ bTask[b].pc = "new"
    /\ b > 1 => bTask[b - 1].pc # "new"
    /\ bTask' = [bTask EXCEPT ![b] =
                   IF connected_clients = {}
                   THEN [@ EXCEPT !.pc = "done"]
                   ELSE [@ EXCEPT !.pc = "send", !.clients = connected_clients,
                                  !.todo = connected_clients]]
    /\ UNCHANGED <<earsVars, chanVars, ctlVars, ttsVars, replyVars, playVars, workVars, splitVars, voiceVars, engVars, hubConn, hubHandler, hubIn,
                   hubCmds, hubLast>>

\* BcastCleanup as if the clients were taken out with set.remove, which
\* raises KeyError for a client that is no longer registered
BcastCleanup_Remove(b, t) ==
    IF t.disconnected \subseteq connected_clients
    THEN /\ connected_clients' = connected_clients \ t.disconnected
         /\ bTask' = [bTask EXCEPT ![b] = [t EXCEPT !.pc = "done"]]
    ELSE /\ connected_clients' = connected_clients
         /\ bTask' = [bTask EXCEPT ![b] = [t EXCEPT !.pc = "raised"]]

\* lines 109-110: after the loop every failed client is discarded;
\* set.discard of a client that is already gone does nothing
BcastCleanup(b, t) ==
    /\ connected_clients' = connected_clients \ t.disconnected
    /\ bTask' = [bTask EXCEPT ![b] =
                   [t EXCEPT !.pc = "done",
                             !.absent = t.disconnected \ connected_clients]]

\* BcastSend as if the exception of a failed send left the loop
BcastSend_AbortOnFailure(b) ==
    /\ bTask[b].pc = "send"
    /\ \E c \in bTask[b].todo :
         IF hubConn[c] = "open"
         THEN LET t == [bTask[b] EXCEPT !.todo = @ \ {c}, !.sent = @ \cup {c}]
              IN  /\ hubIn' = [hubIn EXCEPT ![c] = Append(@, TextMsg(b))]
                  /\ IF t.todo = {}
                     THEN BcastCleanup(b, t)
                     ELSE bTask' = [bTask EXCEPT ![b] = t] /\ UNCHANGED connected_clients
         ELSE /\ bTask' = [bTask EXCEPT ![b] = [@ EXCEPT !.pc = "raised"]]
              /\ UNCHANGED <<hubIn, connected_clients>>
    /\ UNCHANGED <<srvUp, listening_event, srvHandler, gateHist, workerPc, agPc, recAudio,
                   nextUtt, loopQueue, chanVars, ctlVars, ttsVars, replyVars, playVars, workVars, splitVars, voiceVars, engVars, hubConn, hubHandler,
                   hubCmds, hubLast>>

\* lines 101-110: the send to the next client of the list completes or
\* raises (the client is noted in disconnected); after the last client the
\* cleanup runs without another suspension. The list is a copy of a set:
\* the order in which it names the clients is not fixed, and two copies
\* need not name them in the same order
BcastSend(b) ==
    /\ bTask[b].pc = "send"
    /\ \E c \in bTask[b].todo :
         LET ok == hubConn[c] = "open"
             t == [bTask[b] EXCEPT
                     !.todo = @ \ {c},
                     !.sent = IF ok THEN @ \cup {c} ELSE @,
                     !.disconnected = IF ok THEN @ ELSE @ \cup {c}]
         IN  /\ hubIn' = IF ok THEN [hubIn EXCEPT ![c] = Append(@, TextMsg(b))] ELSE hubIn
             /\ IF t.todo = {}
                THEN BcastCleanup(b, t)
                ELSE bTask' = [bTask EXCEPT ![b] = t] /\ UNCHANGED connected_clients
    /\ UNCHANGED <<srvUp, listening_event, srvHandler, gateHist, workerPc, agPc, recAudio,
                   nextUtt, loopQueue, chanVars, ctlVars, ttsVars, replyVars, playVars, workVars, splitVars, voiceVars, engVars, hubConn, hubHandler,
                   hubCmds, hubLast>>

InitHub == EarsInit /\ TtsIdle /\ HubInit /\ ReplyInit /\ PlayIdle /\ WorkIdle /\ SplitIdle /\ VoiceIdle /\ EngIdle

\* the connections and the broadcasts
NextHub ==
    \/ \E c \in Clients : HubConnect(c)
    \/ \E c \in Clients : HubDrop(c)
    \/ \E c \in Clients : HubHandlerExit(c)
    \/ \E b \in Broadcasts : BcastStart(b)
    \/ \E b \in Broadcasts : BcastSend(b)

SpecHub == InitHub /\ [][NextHub]_vars

\* the connections and the messages their clients send
NextGate ==
    \/ \E c \in Clients : HubConnect(c)
    \/ \E c \in Clients : \E m \in RAW_MESSAGES : HubMessage(c, m)
    \/ \E c \in Clients : HubDrop(c)
    \/ \E c \in Clients : HubHandlerExit(c)

SpecGate == InitHub /\ [][NextGate]_vars

(***************************************************************************)
(* TTS server (api_server/tts_server.py): what one connection's handler    *)
(* sends in reply to each message it reads.                                *)
(***************************************************************************)
\* the messages a client can send: a valid request, text that is not JSON,
\* JSON that is not an object, an object without text, an object whose
\* speed is not a number
REQUEST_KINDS == {"valid", "not_json", "not_object", "no_text", "bad_speed"}

\* "await ws.send(...)" succeeded: the statuses join the reply
Reply(statuses) == rReply' = rReply \o statuses

\* "await ws.send(...)" of the last statuses of a request: sent, and the
\* handler reads the next message; or the connection is gone
ReplyAndContinue(statuses) ==
    \/ Reply(statuses) /\ rPc' = "idle"
    \/ UNCHANGED rReply /\ rPc' = "closed"

\* lines 63-76: the client connects again and a new handler serves it
RConnect ==
    /\ rPc \in {"closed", "crashed"}
    /\ rPc' = "idle" /\ rReq' = "none" /\ rStream' = FALSE
    /\ rReply' = <<>> /\ rFail' = FALSE /\ rServed' = 0
    /\ UNCHANGED <<earsVars, chanVars, ctlVars, ttsVars, hubVars, playVars, workVars, splitVars, voiceVars, engVars>>

\* lines 78-94: the next message of the connection. Text that is not JSON
\* and a request without text are answered with an error and the loop
\* continues; req.get on JSON that is not an object (line 85) and float() of
\* a speed that is not a number (line 94) raise outside every try, which
\* ends the handler; a valid request goes on to _get_engine
RRequest ==
    /\ rPc = "idle" /\ rServed < MaxRequests
    /\ rServed' = rServed + 1
    /\ \E kind \in REQUEST_KINDS, stream \in BOOLEAN :
        /\ rReq' = kind
        /\ rStream' = (kind = "valid" /\ stream)
        /\ CASE kind = "valid" -> rPc' = "get_engine" /\ rReply' = <<>>
             [] kind \in {"not_json", "no_text"} ->
                  \/ rReply' = <<"error">> /\ rPc' = "idle"
                  \/ rReply' = <<>> /\ rPc' = "closed"
             [] kind \in {"not_object", "bad_speed"} ->
                  rReply' = <<>> /\ rPc' = "crashed"
    /\ rFail' = FALSE
    /\ UNCHANGED <<earsVars, chanVars, ctlVars, ttsVars, hubVars, playVars, workVars, splitVars, voiceVars, engVars>>

\* lines 97-101 and 155-156: the engine is there (or is built now), or
\* building it raises and the error is reported
RGetEngine ==
    /\ rPc = "get_engine"
    /\ \/ /\ rPc' = IF rStream THEN "send_start" ELSE "engine"
          /\ UNCHANGED <<rReply, rFail>>
       \/ /\ rFail' = TRUE
          /\ ReplyAndContinue(<<"error">>)
    /\ UNCHANGED <<earsVars, chanVars, ctlVars, ttsVars, hubVars, playVars, workVars, splitVars, voiceVars, engVars, rServed, rReq, rStream>>

\* lines 104-114: the "start" header; a failed send ends the handler (the
\* error reply at 156 fails as well)
RSendStart ==
    /\ rPc = "send_start"
    /\ \/ Reply(<<"start">>) /\ rPc' = "engine"
       \/ UNCHANGED rReply /\ rPc' = "closed"
    /\ UNCHANGED <<earsVars, chanVars, ctlVars, ttsVars, hubVars, playVars, workVars, splitVars, voiceVars, engVars, rServed, rReq, rStream, rFail>>

\* _stream_send_pcm_from_thread lines 58-60: the engine yields a chunk and
\* it is sent
RStreamChunk ==
    /\ rPc = "engine" /\ rStream
    /\ Len(rReply) < 1 + MaxChunks
    /\ Reply(<<"pcm">>)
    /\ UNCHANGED <<earsVars, chanVars, ctlVars, ttsVars, hubVars, playVars, workVars, splitVars, voiceVars, engVars, rServed, rPc, rReq, rStream, rFail>>

\* lines 117-129: the thread ends: the engine is exhausted, or the engine
\* raised and the exception is swallowed
RStreamEnd ==
    /\ rPc = "engine" /\ rStream
    /\ \E raised \in BOOLEAN : rFail' = raised
    /\ rPc' = "send_done"
    /\ UNCHANGED <<earsVars, chanVars, ctlVars, ttsVars, hubVars, playVars, workVars, splitVars, voiceVars, engVars, rServed, rReq, rStream, rReply>>

\* lines 131-134: "done" is sent, a failure swallowed
RSendDone ==
    /\ rPc = "send_done"
    /\ ReplyAndContinue(<<"done">>)
    /\ UNCHANGED <<earsVars, chanVars, ctlVars, ttsVars, hubVars, playVars, workVars, splitVars, voiceVars, engVars, rServed, rReq, rStream, rFail>>

\* line 137: synthesize_sft_pcm returns
RBatchReturn ==
    /\ rPc = "engine" /\ ~rStream
    /\ rPc' = "send_complete"
    /\ UNCHANGED <<earsVars, chanVars, ctlVars, ttsVars, hubVars, playVars, workVars, splitVars, voiceVars, engVars, rServed, rReq, rStream, rReply, rFail>>

\* lines 137 and 155-156: synthesize_sft_pcm raises and the error is reported
RBatchRaise ==
    /\ rPc = "engine" /\ ~rStream
    /\ rFail' = TRUE
    /\ ReplyAndContinue(<<"error">>)
    /\ UNCHANGED <<earsVars, chanVars, ctlVars, ttsVars, hubVars, playVars, workVars, splitVars, voiceVars, engVars, rServed, rReq, rStream>>

\* lines 138-148: the "complete" header; a failed send ends the handler
RSendComplete ==
    /\ rPc = "send_complete"
    /\ \/ Reply(<<"complete">>) /\ rPc' = "send_pcm"
       \/ UNCHANGED rReply /\ rPc' = "closed"
    /\ UNCHANGED <<earsVars, chanVars, ctlVars, ttsVars, hubVars, playVars, workVars, splitVars, voiceVars, engVars, rServed, rReq, rStream, rFail>>

\* lines 149-153: audio and "done" are sent, a failure swallowed
RSendPcm ==
    /\ rPc = "send_pcm"
    /\ ReplyAndContinue(<<"pcm", "done">>)
    /\ UNCHANGED <<earsVars, chanVars, ctlVars, ttsVars, hubVars, playVars, workVars, splitVars, voiceVars, engVars, rServed, rReq, rStream, rFail>>

\* line 78: the client closes the connection and the iteration ends
RClientClose ==
    /\ rPc = "idle"
    /\ rPc' = "closed"
    /\ UNCHANGED <<earsVars, chanVars, ctlVars, ttsVars, hubVars, playVars, workVars, splitVars, voiceVars, engVars, rServed, rReq,
                   rStream, rReply, rFail>>

InitReply == EarsInit /\ TtsIdle /\ HubInit /\ ReplyInit /\ PlayIdle /\ WorkIdle /\ SplitIdle /\ VoiceIdle /\ EngIdle

NextReply ==
    \/ RConnect
    \/ RRequest
    \/ RGetEngine
    \/ RSendStart
    \/ RStreamChunk
    \/ RStreamEnd
    \/ RSendDone
    \/ RBatchReturn
    \/ RBatchRaise
    \/ RSendComplete
    \/ RSendPcm
    \/ RClientClose

SpecReply == InitReply /\ [][NextReply]_vars

(***************************************************************************)
(* Controller (controller.py): synthesis and playback of one response,     *)
(* stream_to_tts and _infer_and_play_tts.                                  *)
(***************************************************************************)
\* what goes to the audio device: chunk k received in call u
Audio(u, k) == [unit |-> u, chunk |-> k]

\* audio_stream.write(data) in try/except: written, or the failure is printed
DeviceWrite(data) ==
    \/ playOut' = playOut \o data
    \/ playOut' = playOut

\* the characters of the modelled texts: a letter, a blank, a sentence end,
\* a line break
CHARS == {"a", " ", "!", "\n"}
\* the texts of at most MaxText characters
Texts == UNION {[1..n -> CHARS] : n \in 0..MaxText}

\* controller.py line 65: the characters that end a sentence: the
\* ideographic full stop, the fullwidth question and exclamation marks, ! and ?
SENTENCE_END == {"IDEOGRAPHIC_FULL_STOP", "FULLWIDTH_QUESTION_MARK",
                 "FULLWIDTH_EXCLAMATION_MARK", "!", "?"}

\* the whitespace of the modelled texts
WHITESPACE == {" ", "\n"}

\* str.strip(): the text without its leading and trailing whitespace
Strip(text) ==
    LET solid == {i \in 1..Len(text) : text[i] \notin WHITESPACE}
    IN  IF solid = {}
        THEN <<>>
        ELSE SubSeq(text, CHOOSE i \in solid : \A j \in solid : i <= j,
                          CHOOSE i \in solid : \A j \in solid : i >= j)

\* SENTENCE_SPLIT_REGEX "(.+?[...]+)" tried at position start: at least one
\* character, as few as possible and none of them a line break ("." does not
\* match one), then as many sentence ends as follow; the result is the
\* position of the last character matched, 0 for no match
MatchEnd(buffer, start) ==
    LET ends == {e \in (start + 1)..Len(buffer) : buffer[e] \in SENTENCE_END}
    IN  IF ends = {}
        THEN 0
        ELSE LET first == CHOOSE e \in ends : \A x \in ends : e <= x
             IN  IF \E i \in start..(first - 1) : buffer[i] = "\n"
                 THEN 0
                 ELSE CHOOSE f \in first..Len(buffer) :
                        /\ \A i \in first..f : buffer[i] \in SENTENCE_END
                        /\ (f = Len(buffer) \/ buffer[f + 1] \notin SENTENCE_END)

\* finditer's search from position pos on: the first position at which the
\* expression matches, 0 when it matches nowhere
MatchStart(buffer, pos) ==
    LET starts == {s \in pos..Len(buffer) : MatchEnd(buffer, s) # 0}
    IN  IF starts = {} THEN 0 ELSE CHOOSE s \in starts : \A x \in starts : s <= x

RECURSIVE SplitFrom(_, _, _)
\* lines 91-98: the loop over finditer from remainder_start on
SplitFrom(buffer, remainder_start, sentences) ==
    LET start == MatchStart(buffer, remainder_start + 1)
    IN  IF start = 0
        THEN [sentences |-> sentences,
              remainder |-> SubSeq(buffer, remainder_start + 1, Len(buffer))]
        ELSE LET end == MatchEnd(buffer, start)
                 sentence == Strip(SubSeq(buffer, start, end))
             IN  SplitFrom(buffer, end,
                           IF sentence # <<>> THEN Append(sentences, sentence) ELSE sentences)

\* _split_sentences lines 84-98: the complete sentences of the buffer and
\* what follows the last of them
split_sentences(buffer) == SplitFrom(buffer, 0, <<>>)

\* what the generation call can do: a reply with text; the backend raised
\* inside the LLM server; a status other than 200; no connection; a timeout;
\* any other exception
GEN_OUTCOMES == {"ok", "backend_raised", "non200", "connect_error", "timeout", "exception"}
\* the outcomes in which no response was generated
GEN_FAILURES == GEN_OUTCOMES \ {"ok"}

\* run_llm_server.py 136-138, run_llm_server_openai.py 123-125: when the
\* backend raises, think answers 200 with the text of the error as response
ERROR_REPLY == <<"e", "r", "r">>

\* handle_llm_response lines 396-416 and 423-429 with think of the LLM
\* server: the request is posted; a failure to connect, a timeout, a status
\* other than 200 and any exception are printed and end the call; else the
\* text of the reply is taken
LlmReply ==
    /\ playPc \in {"idle", "done"}
    /\ \E outcome \in GEN_OUTCOMES :
        /\ genOutcome' = outcome
        /\ CASE outcome = "ok" -> \E text \in Texts : full_response' = text
             [] outcome = "backend_raised" -> full_response' = ERROR_REPLY
             [] OTHER -> full_response' = <<>>
        /\ playPc' = IF outcome \in {"ok", "backend_raised"} THEN "collect" ELSE "done"
    /\ playCalls' = 0
    /\ playTexts' = <<>>
    /\ playMode' = "none"
    /\ audio_chunks' = <<>>
    /\ played_realtime' = FALSE
    /\ playOut' = <<>>
    /\ UNCHANGED <<earsVars, chanVars, ctlVars, ttsVars, hubVars, replyVars, workVars, splitVars, voiceVars, engVars, ENABLE_FACE_ANIMATION>>

\* stream_to_tts lines 376-389: the whole text of the response is collected
\* and, unless blank, handed stripped to one call of _infer_and_play_tts
PlayStart ==
    /\ playPc = "collect"
    /\ LET full_text == Strip(full_response)
       IN  IF full_text = <<>>
           THEN playPc' = "done" /\ playCalls' = 0 /\ playTexts' = <<>>
           ELSE playPc' = "first" /\ playCalls' = 1 /\ playTexts' = <<full_text>>
    /\ UNCHANGED <<earsVars, chanVars, ctlVars, ttsVars, hubVars, replyVars, workVars, splitVars, voiceVars, engVars,
                   ENABLE_FACE_ANIMATION, audio_chunks, played_realtime, playOut,
                   genOutcome, full_response, playMode>>

\* lines 221-249, 277, 291-293, 360-368: connect, send the request, read the
\* first response: a streamed reply, a batch reply, anything else, or an
\* exception
PlayFirst ==
    /\ playPc = "first"
    /\ \E first \in {"start", "complete", "other", "exception"} :
         /\ playPc' = CASE first = "start" -> "stream"
                        [] first = "complete" -> "batch"
                        [] OTHER -> "done"
         /\ playMode' = CASE first = "start" -> "stream"
                          [] first = "complete" -> "batch"
                          [] OTHER -> "none"
    /\ UNCHANGED <<earsVars, chanVars, ctlVars, ttsVars, hubVars, replyVars, workVars, splitVars, voiceVars, engVars, ENABLE_FACE_ANIMATION, genOutcome, full_response, playTexts, playCalls, audio_chunks,
                   played_realtime, playOut>>

\* PlayStreamChunk as if a chunk were played ahead of what was written before
PlayStreamChunk_Prepend ==
    /\ playPc = "stream" /\ Len(audio_chunks) < MaxChunks
    /\ audio_chunks' = Append(audio_chunks, Len(audio_chunks) + 1)
    /\ \/ /\ playOut' = <<Audio(playCalls, Len(audio_chunks) + 1)>> \o playOut
          /\ played_realtime' = TRUE
       \/ UNCHANGED <<playOut, played_realtime>>
    /\ UNCHANGED <<earsVars, chanVars, ctlVars, ttsVars, hubVars, replyVars, workVars, splitVars, voiceVars, engVars, ENABLE_FACE_ANIMATION, genOutcome, full_response, playTexts, playMode, playPc, playCalls>>

\* lines 267-274: a binary chunk is kept and written to the device at once;
\* a failed write is printed
PlayStreamChunk ==
    /\ playPc = "stream" /\ Len(audio_chunks) < MaxChunks
    /\ audio_chunks' = Append(audio_chunks, Len(audio_chunks) + 1)
    /\ \/ /\ playOut' = Append(playOut, Audio(playCalls, Len(audio_chunks) + 1))
          /\ played_realtime' = TRUE
       \/ UNCHANGED <<playOut, played_realtime>>
    /\ UNCHANGED <<earsVars, chanVars, ctlVars, ttsVars, hubVars, replyVars, workVars, splitVars, voiceVars, engVars, ENABLE_FACE_ANIMATION, genOutcome, full_response, playTexts, playMode, playPc, playCalls>>

\* lines 257-264 and 360-368: "done" ends the stream; an error status or an
\* exception ends the call
PlayStreamEnd ==
    /\ playPc = "stream"
    /\ \E last \in {"done", "error", "exception"} :
         playPc' = IF last = "done" THEN "finish" ELSE "done"
    /\ UNCHANGED <<earsVars, chanVars, ctlVars, ttsVars, hubVars, replyVars, workVars, splitVars, voiceVars, engVars, ENABLE_FACE_ANIMATION, genOutcome, full_response, playTexts, playMode, playCalls, audio_chunks,
                   played_realtime, playOut>>

\* lines 281-289 and 360-368: the audio of a batch reply (kept when it is
\* binary) and its "done"; either read can raise, which ends the call
PlayBatch ==
    /\ playPc = "batch"
    /\ \E got \in {"bytes", "text", "exception", "bytes_then_exception"} :
         /\ audio_chunks' = IF got \in {"bytes", "bytes_then_exception"} THEN <<1>>
                            ELSE audio_chunks
         /\ playPc' = IF got \in {"exception", "bytes_then_exception"} THEN "done"
                      ELSE "finish"
    /\ UNCHANGED <<earsVars, chanVars, ctlVars, ttsVars, hubVars, replyVars, workVars, splitVars, voiceVars, engVars, ENABLE_FACE_ANIMATION, genOutcome, full_response, playTexts, playMode, playCalls, played_realtime,
                   playOut>>

\* PlayFinish as if the joined audio were written whether or not chunks
\* were played as they came
PlayFinish_WritesAgain ==
    /\ playPc = "finish"
    /\ IF ~ENABLE_FACE_ANIMATION
       THEN DeviceWrite([i \in 1..Len(audio_chunks) |-> Audio(playCalls, audio_chunks[i])])
       ELSE UNCHANGED playOut
    /\ playPc' = "done"
    /\ UNCHANGED <<earsVars, chanVars, ctlVars, ttsVars, hubVars, replyVars, workVars, splitVars, voiceVars, engVars, ENABLE_FACE_ANIMATION, genOutcome, full_response, playTexts, playMode, playCalls, audio_chunks,
                   played_realtime>>

\* lines 296-358: the chunks are joined; without face animation they are
\* written in one piece unless chunks were played as they came; with face
\* animation the audio goes to the video and not to the device
PlayFinish ==
    /\ playPc = "finish"
    /\ IF ~ENABLE_FACE_ANIMATION /\ ~played_realtime
       THEN DeviceWrite([i \in 1..Len(audio_chunks) |-> Audio(playCalls, audio_chunks[i])])
       ELSE UNCHANGED playOut
    /\ playPc' = "done"
    /\ UNCHANGED <<earsVars, chanVars, ctlVars, ttsVars, hubVars, replyVars, workVars, splitVars, voiceVars, engVars, ENABLE_FACE_ANIMATION, genOutcome, full_response, playTexts, playMode, playCalls, audio_chunks,
                   played_realtime>>

\* the environment decides ENABLE_FACE_ANIMATION
PlayInit ==
    /\ ENABLE_FACE_ANIMATION \in BOOLEAN
    /\ playPc = "idle"
    /\ playCalls = 0
    /\ audio_chunks = <<>>
    /\ played_realtime = FALSE
    /\ playOut = <<>>
    /\ genOutcome = "none"
    /\ full_response = <<>>
    /\ playTexts = <<>>
    /\ playMode = "none"

InitPlay == EarsInit /\ TtsIdle /\ HubInit /\ ReplyInit /\ PlayInit /\ WorkIdle /\ SplitIdle /\ VoiceIdle /\ EngIdle

NextPlay ==
    \/ LlmReply
    \/ PlayStart
    \/ PlayFirst
    \/ PlayStreamChunk
    \/ PlayStreamEnd
    \/ PlayBatch
    \/ PlayFinish

SpecPlay == InitPlay /\ [][NextPlay]_vars

(***************************************************************************)
(* Controller (controller.py): _split_sentences applied to a response that *)
(* arrives in fragments. Each fragment is appended to the buffer, the      *)
(* buffer is split, its sentences are kept and its remainder is the next   *)
(* buffer; what is left at the end is flushed.                             *)
(***************************************************************************)
\* what the actions of this process leave alone
splitRest == <<earsVars, chanVars, ctlVars, ttsVars, hubVars, replyVars, playVars, workVars,
               voiceVars, engVars>>

\* lines 84-98 on buffer + fragment: the call and what it returns
SplitFeed ==
    /\ splitPc = "feeding" /\ fedLen < Len(srcText)
    /\ \E k \in 1..(Len(srcText) - fedLen) :
        LET fragment == SubSeq(srcText, fedLen + 1, fedLen + k)
            cut == split_sentences(accBuffer \o fragment)
        IN  /\ lastInput' = accBuffer \o fragment
            /\ lastSplit' = cut
            /\ accUnits' = accUnits \o cut.sentences
            /\ accBuffer' = cut.remainder
            /\ fedLen' = fedLen + k
    /\ UNCHANGED <<splitRest, srcText, splitPc>>

\* the text has arrived: the remainder, unless blank, is the last unit
SplitFlush ==
    /\ splitPc = "feeding" /\ fedLen = Len(srcText)
    /\ accUnits' = accUnits \o (IF Strip(accBuffer) # <<>> THEN <<Strip(accBuffer)>> ELSE <<>>)
    /\ accBuffer' = <<>>
    /\ splitPc' = "flushed"
    /\ UNCHANGED <<splitRest, srcText, fedLen, lastInput, lastSplit>>

\* the texts of at most MaxBuffer characters
Buffers == UNION {[1..n -> CHARS] : n \in 0..MaxBuffer}

\* the text of the response is any text
SplitInit ==
    /\ srcText \in Buffers
    /\ fedLen = 0
    /\ accBuffer = <<>>
    /\ accUnits = <<>>
    /\ splitPc = "feeding"
    /\ lastInput = <<>>
    /\ lastSplit = split_sentences(<<>>)

InitSplit == EarsInit /\ TtsIdle /\ HubInit /\ ReplyInit /\ PlayIdle /\ WorkIdle /\ SplitInit /\ VoiceIdle /\ EngIdle

NextSplit ==
    \/ SplitFeed
    \/ SplitFlush

SpecSplit == InitSplit /\ [][NextSplit]_vars

(***************************************************************************)
(* STT server process (ears_stt/run_stt_server.py): async_main, the        *)
(* transcription_worker thread, and the engine's audio_generator (run by   *)
(* the recognizer's request stream) and process_responses.                 *)
(***************************************************************************)
\* what the actions of this process leave alone
workRest == <<srvUp, srvHandler, workerPc, agPc, recAudio, nextUtt, loopQueue,
              chanVars, ctlVars, ttsVars, hubVars, replyVars, playVars, splitVars, voiceVars, engVars>>

\* a frame the capture stream delivers, as a listener would class it
FRAMES == {"speech", "silence"}

\* a streaming response before any was handled
NO_RESPONSE == [results |-> FALSE, alternatives |-> FALSE, is_final |-> FALSE,
                transcript |-> <<>>]

\* the responses the recognizer can send: without results, without
\* alternatives, interim, final with empty text, final with blank text,
\* final with text between blanks, final with text
RESPONSES ==
    {NO_RESPONSE,
     [results |-> TRUE, alternatives |-> FALSE, is_final |-> TRUE, transcript |-> <<>>],
     [results |-> TRUE, alternatives |-> TRUE, is_final |-> FALSE, transcript |-> <<"a">>],
     [results |-> TRUE, alternatives |-> TRUE, is_final |-> TRUE, transcript |-> <<>>],
     [results |-> TRUE, alternatives |-> TRUE, is_final |-> TRUE, transcript |-> <<" ">>],
     [results |-> TRUE, alternatives |-> TRUE, is_final |-> TRUE, transcript |-> <<" ", "a", " ">>],
     [results |-> TRUE, alternatives |-> TRUE, is_final |-> TRUE, transcript |-> <<"a">>]}

\* process_responses as if every result with text were yielded, final or not
process_responses_Interim(response) ==
    IF ~response.results THEN <<>>
    ELSE IF ~response.alternatives THEN <<>>
    ELSE LET transcript == Strip(response.transcript)
         IN  IF transcript # <<>> THEN <<transcript>> ELSE <<>>

\* process_responses lines 271-283: what one response makes the loop yield
process_responses(response) ==
    IF ~response.results THEN <<>>
    ELSE IF ~response.alternatives THEN <<>>
    ELSE LET transcript == Strip(response.transcript)
         IN  IF response.is_final /\ transcript # <<>> THEN <<transcript>> ELSE <<>>

\* lines 303-313 with SpeechToTextEngine.__init__ 116-133: the engine is
\* built; without a client the worker only waits for the shutdown
WorkerInit ==
    /\ wPc = "init"
    /\ \E client \in BOOLEAN :
         IF client
         THEN wPc' = "open_device" /\ UNCHANGED reported
         ELSE wPc' = "dummy" /\ reported' = "dummy"
    /\ UNCHANGED <<workRest, listening_event, connected_clients, gateHist, stop_event,
                   mainPc, capStream, gen, frames, sessions, lastResp, scheduled>>

\* lines 310-311: stop_event.wait() returns and the worker returns
WorkerDummyReturn ==
    /\ wPc = "dummy" /\ stop_event
    /\ wPc' = "returned"
    /\ UNCHANGED <<workRest, listening_event, connected_clients, gateHist, stop_event,
                   mainPc, capStream, gen, frames, sessions, lastResp, scheduled, reported>>

\* line 318 with start_audio_stream 175-229: the capture stream is opened;
\* when that raises, lines 357-367 print the fatal error, clean up (there is
\* no stream to close) and the worker returns
WorkerOpenDevice ==
    /\ wPc = "open_device"
    /\ \/ capStream' = "open" /\ wPc' = "loop" /\ UNCHANGED reported
       \/ capStream' = capStream /\ wPc' = "returned" /\ reported' = "fatal"
    /\ UNCHANGED <<workRest, listening_event, connected_clients, gateHist, stop_event,
                   mainPc, gen, frames, sessions, lastResp, scheduled>>

\* line 320 and 361-367: the loop goes on while stop_event is clear; when it
\* is set the finally clause stops and closes the capture stream and the
\* worker returns
WorkerLoop ==
    /\ wPc = "loop"
    /\ IF stop_event
       THEN wPc' = "returned" /\ capStream' = "closed"
       ELSE wPc' = "gate_wait" /\ UNCHANGED capStream
    /\ UNCHANGED <<workRest, listening_event, connected_clients, gateHist, stop_event,
                   mainPc, gen, frames, sessions, lastResp, scheduled, reported>>

\* lines 324-339: the wait ends when the gate is LISTENING or stop_event is
\* set; a new generator and a new streaming session are made
WorkerSession ==
    /\ wPc = "gate_wait"
    /\ listening_event \/ stop_event
    /\ sessions < MaxSessions \/ stop_event
    /\ wPc' = "session"
    /\ gen' = "check"
    /\ frames' = <<>>
    /\ sessions' = IF sessions < MaxSessions THEN sessions + 1 ELSE sessions
    /\ UNCHANGED <<workRest, listening_event, connected_clients, gateHist, stop_event,
                   mainPc, capStream, lastResp, scheduled, reported>>

\* audio_generator lines 244-248: no read while the gate is PAUSED
GenCheck ==
    /\ wPc = "session" /\ gen = "check" /\ listening_event
    /\ gen' = "read"
    /\ UNCHANGED <<workRest, listening_event, connected_clients, gateHist, stop_event,
                   mainPc, wPc, capStream, frames, sessions, lastResp, scheduled, reported>>

\* audio_generator lines 250-267: the read gives a frame (an overflow is
\* not raised, exception_on_overflow=False) and the frame is yielded to the
\* recognizer; or the read raises, the error is printed and the loop is left
GenRead ==
    /\ wPc = "session" /\ gen = "read"
    /\ \/ /\ Len(frames) < MaxFrames
          /\ \E chunk \in FRAMES : frames' = Append(frames, chunk)
          /\ gen' = "check"
          /\ UNCHANGED reported
       \/ /\ gen' = "ended"
          /\ reported' = "read_error"
          /\ UNCHANGED frames
    /\ UNCHANGED <<workRest, listening_event, connected_clients, gateHist, stop_event,
                   mainPc, wPc, capStream, sessions, lastResp, scheduled>>

\* lines 342-347 with process_responses: the recognizer sends a response for
\* the audio it was given; what process_responses yields for it is handed
\* to broadcast_text at once
RecognizerResponse ==
    /\ wPc = "session" /\ frames # <<>>
    /\ \E response \in RESPONSES :
        /\ lastResp' = response
        /\ IF process_responses(response) # <<>>
           THEN /\ Len(scheduled) < MaxTranscripts
                /\ scheduled' = scheduled \o process_responses(response)
                /\ frames' = <<>>
           ELSE UNCHANGED <<scheduled, frames>>
    /\ UNCHANGED <<workRest, listening_event, connected_clients, gateHist, stop_event,
                   mainPc, wPc, capStream, gen, sessions, reported>>

\* line 342: the generator has ended, so the request stream and with it the
\* responses end; the for loop is left and the while loop starts over
SessionEnd ==
    /\ wPc = "session" /\ gen = "ended"
    /\ wPc' = "loop"
    /\ gen' = "none"
    /\ UNCHANGED <<workRest, listening_event, connected_clients, gateHist, stop_event,
                   mainPc, capStream, frames, sessions, lastResp, scheduled, reported>>

\* lines 349-353: the session raises (audio timeout, duration limit, the
\* network); unless stop_event is set the error is printed and the worker
\* waits up to 3 s
SessionRaises ==
    /\ wPc = "session"
    /\ gen' = "none"
    /\ IF stop_event
       THEN wPc' = "loop" /\ UNCHANGED reported
       ELSE wPc' = "retry_wait" /\ reported' = "session_error"
    /\ UNCHANGED <<workRest, listening_event, connected_clients, gateHist, stop_event,
                   mainPc, capStream, frames, sessions, lastResp, scheduled>>

\* line 353: stop_event.wait(timeout=3) returns
WorkerRetryWait ==
    /\ wPc = "retry_wait"
    /\ wPc' = "loop"
    /\ UNCHANGED <<workRest, listening_event, connected_clients, gateHist, stop_event,
                   mainPc, capStream, gen, frames, sessions, lastResp, scheduled, reported>>

\* websocket_handler lines 57-63, served by websockets.serve (376): a client
\* connects and is registered
WorkClientConnect ==
    /\ mainPc = "serving" /\ CTL \notin connected_clients
    /\ connected_clients' = connected_clients \cup {CTL}
    /\ UNCHANGED <<workRest, listening_event, gateHist, workVars>>

\* websocket_handler lines 71-81: a client's command changes the gate
WorkGateCommand ==
    /\ mainPc = "serving" /\ CTL \in connected_clients
    /\ Len(gateHist) < MaxGateChanges
    /\ listening_event' = ~listening_event
    /\ gateHist' = Append(gateHist, IF listening_event THEN "PAUSED" ELSE "LISTENING")
    /\ UNCHANGED <<workRest, connected_clients, workVars>>

\* async_main lines 387-398: the wait is cancelled; stop_event is set and
\* the websocket server is closed with its connections
MainShutdown ==
    /\ mainPc = "serving"
    /\ stop_event' = TRUE
    /\ mainPc' = "closing"
    /\ connected_clients' = {}
    /\ UNCHANGED <<workRest, listening_event, gateHist, wPc, capStream, gen, frames,
                   sessions, lastResp, scheduled, reported>>

\* async_main lines 402-416 and 419-423: worker.join(timeout=5) returns, at
\* once when the worker has returned, after 5 s when it still waits for the
\* recognizer; async_main ends and the process exits, which ends the daemon
\* thread where it stands
MainJoin ==
    /\ mainPc = "closing"
    /\ wPc \in {"returned", "session"}
    /\ mainPc' = "exited"
    /\ IF wPc = "returned"
       THEN UNCHANGED <<wPc, gen>>
       ELSE wPc' = "killed" /\ gen' = "none"
    /\ UNCHANGED <<workRest, listening_event, connected_clients, gateHist, stop_event,
                   capStream, frames, sessions, lastResp, scheduled, reported>>

InitWorker == EarsInit /\ TtsIdle /\ HubInit /\ ReplyInit /\ PlayIdle /\ WorkIdle /\ SplitIdle /\ VoiceIdle /\ EngIdle

NextWorker ==
    \/ WorkerInit
    \/ WorkerDummyReturn
    \/ WorkerOpenDevice
    \/ WorkerLoop
    \/ WorkerSession
    \/ GenCheck
    \/ GenRead
    \/ RecognizerResponse
    \/ SessionEnd
    \/ SessionRaises
    \/ WorkerRetryWait
    \/ WorkClientConnect
    \/ WorkGateCommand
    \/ MainShutdown
    \/ MainJoin

SpecWorker == InitWorker /\ [][NextWorker]_vars

\* the threads run: every step of the worker and of async_main that is
\* enabled is taken in the end, and the recognizer ends every session in
\* the end (audio timeout, duration limit)
FairWorker ==
    /\ WF_vars(WorkerInit) /\ WF_vars(WorkerDummyReturn) /\ WF_vars(WorkerOpenDevice)
    /\ WF_vars(WorkerLoop) /\ WF_vars(WorkerSession) /\ WF_vars(WorkerRetryWait)
    /\ WF_vars(SessionEnd \/ SessionRaises)
    /\ WF_vars(MainJoin)

FairSpecWorker == SpecWorker /\ FairWorker

(***************************************************************************)
(* Properties.                                                             *)
(***************************************************************************)
Last(q) == q[Len(q)]
InTurn == ctlPc \in {"pause", "llm", "tts", "resume"}
InSession == ctlPc \in {"recv", "pause", "llm", "tts", "resume"}

\* a step that schedules broadcast_text for a transcript
HandsTranscriptOver == Len(loopQueue') > Len(loopQueue)
\* a step that sends a transcript to the client
SendsTranscript == Len(s2c') > Len(s2c) /\ Last(s2c').kind = "text"

\* C1: while the gate is PAUSED no transcript is handed to broadcast_text and
\* none is sent to a client.
C1_PausedGateBlocksTranscripts ==
    [][(HandsTranscriptOver \/ SendsTranscript) => listening_event]_vars

\* C2: a turn, once started, is left only through the step that attempts
\* RESUME_LISTENING on the connection, and that step leads back to the read of
\* the next message, whatever generation and synthesis did.
C2_TurnEndsWithResumeAttempt ==
    [][(InTurn /\ ~InTurn') =>
          /\ ctlPc = "resume" /\ ctlPc' = "recv"
          /\ cmdLog' = Append(cmdLog, "RESUME_LISTENING")
          /\ Last(turnLog') = "RESUME"]_vars

\* a turn whose generation failed has ended with the resume attempt
C2_FailedTurnResumed ==
    /\ ctlPc = "recv"
    /\ turnLog = <<"PAUSE", "GEN_FAIL", "RESUME">>
    /\ Last(cmdLog) = "RESUME_LISTENING"

\* the gate states PAUSED, LISTENING, PAUSED, ... of length n
GateSeq(n) == [i \in 1..n |-> IF i % 2 = 1 THEN "PAUSED" ELSE "LISTENING"]
\* the first connection of the controller, still open
FirstConnection == conn /\ retry_count = 0 /\ InSession
\* commands of this connection the server has handled
Handled == Len(cmdLog) - Len(c2s)

\* C3: on the controller's first connection, with the gate LISTENING at the
\* start, the gate takes exactly the states PAUSED, LISTENING once per turn:
\* PAUSE_LISTENING is the last command sent while generation and synthesis
\* run, the gate is PAUSED there once the command is handled, and after n
\* finished turns the gate has taken 2n states, PAUSED and LISTENING in turn.
C3_GateSequencePerTurn ==
    FirstConnection =>
        /\ gateHist = GateSeq(IF Handled > 0 THEN Handled - 1 ELSE 0)
        /\ ctlPc \in {"llm", "tts", "resume"} =>
              /\ Last(cmdLog) = "PAUSE_LISTENING"
              /\ c2s = <<>> => ~listening_event
        /\ ctlPc \in {"recv", "pause"} =>
              /\ Last(cmdLog) = "RESUME_LISTENING"
              /\ c2s = <<>> => listening_event

\* one whole turn, played, has produced [PAUSED, LISTENING]
C3_OneTurnDone ==
    /\ FirstConnection /\ ctlPc = "recv" /\ c2s = <<>>
    /\ turnLog = <<"PAUSE", "GEN", "PLAY", "RESUME">>
    /\ cmdLog = <<"RESUME_LISTENING", "PAUSE_LISTENING", "RESUME_LISTENING">>
    /\ gateHist = <<"PAUSED", "LISTENING">>

\* C4: the gate does not stay PAUSED: once the controller has stopped and
\* its handler has ended, nothing is left that could resume the gate, so the
\* gate is LISTENING there.
C4_GateListeningAfterControllerStopped ==
    (ctlPc = "stopped" /\ srvUp /\ ~srvHandler /\ c2s = <<>>) => listening_event

\* C5: at most Capacity engine calls run at once.
C5_EngineCallsWithinCapacity ==
    Cardinality(EngineCalls) <= Capacity

\* the capacity is used up by engine calls while another task waits
C5_CapacityReached ==
    /\ Cardinality(EngineCalls) = Capacity
    /\ \E t \in Tasks : hPc[t] = "acquire"

C7_BoundedRetry ==
    /\ [](/\ retry_count \in 0..max_retries
          /\ retry_count = max_retries => ctlPc = "stopped"
          /\ ctlPc = "backoff" => retry_count \in 1..(max_retries - 1))
    /\ [][/\ (ctlPc' = "connecting" /\ ctlPc # "connecting") => ctlPc = "backoff"
          /\ ctlPc = "stopped" => ctlPc' = "stopped"
          /\ retry_count' \in {retry_count, retry_count + 1}
          /\ (ctlPc = "recv" /\ closeKind = "error" /\ ctlPc' \notin {"recv", "pause"}) =>
                /\ retry_count' = retry_count + 1
                /\ ctlPc' = IF retry_count' < max_retries THEN "backoff" ELSE "stopped"]_vars

\* the budget is used up by abnormal closes and the controller has stopped
C7_BudgetExhausted ==
    ctlPc = "stopped" /\ retry_count = max_retries /\ ctlDiag = "closed_error"

\* the shapes a turn's log can have at each position of the turn
TurnShape ==
    /\ ctlPc = "pause" => turnLog = <<>>
    /\ ctlPc = "llm" => turnLog = <<"PAUSE">>
    /\ ctlPc = "tts" => turnLog = <<"PAUSE", "GEN">>
    /\ ctlPc = "resume" =>
          turnLog \in {<<"PAUSE", "GEN", "PLAY">>, <<"PAUSE", "GEN", "TTS_FAIL">>,
                       <<"PAUSE", "GEN">>, <<"PAUSE", "GEN_FAIL">>}

\* C8: on a connection made after a failure, RESUME_LISTENING is the first
\* command, every transcript read starts a turn, and the turn runs pause,
\* generation, synthesis and playback (when generation gave text), resume.
C8_ReconnectedSessionIsNormal ==
    /\ []((retry_count > 0 /\ InSession) =>
            /\ cmdLog # <<>> /\ cmdLog[1] = "RESUME_LISTENING"
            /\ \A i \in 1..Len(cmdLog) :
                  cmdLog[i] = IF i % 2 = 1 THEN "RESUME_LISTENING" ELSE "PAUSE_LISTENING"
            /\ (ctlPc \in {"recv", "pause"}) <=> (Len(cmdLog) % 2 = 1)
            /\ TurnShape)
    /\ [][(retry_count > 0 /\ ctlPc = "recv" /\ s2c # <<>> /\ s2c' = Tail(s2c)) =>
            IF IsStatus(Head(s2c))
            THEN ctlPc' = "recv"
            ELSE ctlPc' = "pause" /\ cur' = Head(s2c).val]_vars

\* after a reconnection a whole turn has been processed on the new connection
C8_TurnAfterReconnect ==
    /\ retry_count > 0 /\ conn /\ ctlPc = "recv"
    /\ cmdLog = <<"RESUME_LISTENING", "PAUSE_LISTENING", "RESUME_LISTENING">>
    /\ turnLog = <<"PAUSE", "GEN", "PLAY", "RESUME">>

C11_LateTranscriptStartsNoTurn ==
    InTurn => cur \notin lateTexts

\* number of entries of q that are in S
Count(q, S) == Cardinality({i \in 1..Len(q) : q[i] \in S})
\* q extends p
Extends(q, p) == Len(q) >= Len(p) /\ SubSeq(q, 1, Len(p)) = p

\* C12: one turn at a time: the lock is held exactly between the pause and
\* the resume of a turn, a turn issues at most one generation request and at
\* most one synthesis request, and until its RESUME_LISTENING is sent the
\* transcript in progress does not change and its log only grows.
C12_OneTurnAtATime ==
    /\ [](/\ processing_lock <=> BetweenPauseAndResume
          /\ Count(turnLog, {"GEN", "GEN_FAIL"}) <= 1
          /\ Count(turnLog, {"PLAY", "TTS_FAIL"}) <= 1
          /\ Count(turnLog, {"PAUSE"}) <= 1)
    /\ [][processing_lock =>
            /\ cur' = cur
            /\ Extends(turnLog', turnLog)
            /\ ~processing_lock' => Last(turnLog') = "RESUME"]_vars

\* synthesis of one transcript runs while the next transcript waits unread
C12_TranscriptWaitsDuringTurn ==
    /\ ctlPc = "tts" /\ processing_lock
    /\ \E i \in 1..Len(s2c) : s2c[i].kind = "text" /\ s2c[i].val # cur

\* C13: a failed PAUSE_LISTENING send is printed and the turn goes on to
\* generation and synthesis; a failed RESUME_LISTENING send is printed and
\* the controller goes back to reading the next message.
C13_GateCommandsFireAndForget ==
    [][/\ (ctlPc = "pause" /\ ctlPc' # "pause" /\ ~conn) =>
             /\ ctlPc' = "llm" /\ ctlDiag' = "send_failed" /\ cur' = cur
       /\ (ctlPc = "llm" /\ ctlPc' # "llm") =>
             /\ Last(turnLog') \in {"GEN", "GEN_FAIL"}
             /\ ctlPc' \in {"tts", "resume"}
             /\ Last(turnLog') = "GEN_FAIL" => ctlPc' = "resume"
       /\ (ctlPc = "tts" /\ ctlPc' # "tts") =>
             /\ Last(turnLog') \in {"PLAY", "TTS_FAIL"} /\ ctlPc' = "resume"
       /\ (ctlPc = "resume" /\ ctlPc' # "resume" /\ ~conn) =>
             /\ ctlPc' = "recv" /\ ctlDiag' = "send_failed"
             /\ retry_count' = retry_count]_vars

\* the PAUSE_LISTENING and the RESUME_LISTENING of a turn both failed, the
\* turn was processed in full and the controller reads on
C13_TurnDoneThoughSendsFailed ==
    /\ ctlPc = "recv" /\ ~conn /\ ctlDiag = "send_failed"
    /\ cmdLog = <<"RESUME_LISTENING", "PAUSE_LISTENING", "RESUME_LISTENING">>
    /\ c2s = <<"RESUME_LISTENING">>
    /\ turnLog = <<"PAUSE", "GEN", "PLAY", "RESUME">>

\* client c has received the text of broadcast b
Received(c, b) == \E i \in 1..Len(hubIn[c]) : hubIn[c][i] = TextMsg(b)

\* C14: a broadcast attempts the send for every client that was registered
\* when it started, whether or not earlier sends failed; the clients noted as
\* failed are exactly those whose connection was closed at their send; the
\* registry is left alone during the send loop and loses exactly the failed
\* clients when the loop has completed.
C14_BroadcastAttemptsAllRemovesFailed ==
    /\ [](\A b \in Broadcasts :
            /\ bTask[b].pc # "raised"
            /\ bTask[b].sent \cup bTask[b].disconnected = bTask[b].clients \ bTask[b].todo
            /\ bTask[b].sent \cap bTask[b].disconnected = {}
            /\ \A c \in bTask[b].sent : Received(c, b)
            /\ bTask[b].pc = "done" =>
                  /\ bTask[b].todo = {}
                  /\ bTask[b].disconnected \cap connected_clients = {})
    /\ [][\A b \in Broadcasts :
            /\ (bTask[b].pc = "new" /\ bTask'[b].pc # "new") =>
                  /\ bTask'[b].clients = connected_clients
                  /\ connected_clients' = connected_clients
            /\ (bTask[b].pc = "send" /\ bTask'[b] # bTask[b]) =>
                  /\ \A c \in bTask[b].todo \ bTask'[b].todo :
                        (c \in bTask'[b].sent) <=> (hubConn[c] = "open")
                  /\ connected_clients' =
                        IF bTask'[b].pc = "send"
                        THEN connected_clients
                        ELSE connected_clients \ bTask'[b].disconnected]_vars

\* a broadcast has ended: one client's send failed and the client is out of
\* the registry, another client has received the text
C14_OneFailedOneReceived ==
    \E b \in Broadcasts :
        /\ bTask[b].pc = "done"
        /\ bTask[b].sent # {} /\ bTask[b].disconnected # {}
        /\ bTask[b].sent \subseteq connected_clients
        /\ bTask[b].disconnected \cap connected_clients = {}

\* C15: discarding a client is idempotent and safe while a broadcast is
\* suspended: no broadcast ends in an exception, a client whose handler
\* has exited or whose send failed in a finished broadcast is absent from
\* the registry, and every client of a finished broadcast whose connection
\* is open has received the text.
C15_DiscardIdempotentDuringBroadcast ==
    /\ \A b \in Broadcasts :
          /\ bTask[b].pc \in {"new", "send", "done"}
          /\ bTask[b].pc = "done" =>
                \A c \in bTask[b].clients :
                    /\ hubConn[c] = "open" => Received(c, b)
                    /\ c \in bTask[b].disconnected => c \notin connected_clients
    /\ \A c \in Clients : hubHandler[c] = "exited" => c \notin connected_clients

\* the only broadcast was suspended in its send loop when a client's handler
\* exited and discarded the client; the broadcast's cleanup discarded the
\* same client again, and the other client has received the text
C15_DiscardedTwice ==
    /\ bTask[1].pc = "done" /\ bTask[2].pc = "new"
    /\ \E c \in bTask[1].absent : hubHandler[c] = "exited"
    /\ \E c \in bTask[1].sent : c \in connected_clients

\* C16: every change of the gate sends the STATE notification of the new
\* state to every registered client with an open connection.
C16_GateChangeNotifiesAllClients ==
    [][listening_event' # listening_event =>
          \A c \in connected_clients :
              hubConn[c] = "open" =>
                  hubIn'[c] = Append(hubIn[c], StateMsg(listening_event'))]_vars

\* a step that processes PAUSE_LISTENING on a PAUSED gate or
\* RESUME_LISTENING on a LISTENING gate
RedundantCommand ==
    /\ hubCmds' = hubCmds + 1 /\ ~hubLast'.binary
    /\ \/ hubLast'.cmd = "PAUSE_LISTENING" /\ ~listening_event
       \/ hubLast'.cmd = "RESUME_LISTENING" /\ listening_event

\* C17: PAUSE_LISTENING on a PAUSED gate and RESUME_LISTENING on a LISTENING
\* gate change neither the gate nor the registry and send nothing.
C17_RedundantCommandIsNoOp ==
    [][RedundantCommand =>
          /\ listening_event' = listening_event /\ gateHist' = gateHist
          /\ connected_clients' = connected_clients /\ hubHandler' = hubHandler
          /\ hubIn' = hubIn]_vars

\* RESUME_LISTENING was processed on a gate that has never been PAUSED, with
\* two clients registered that have received their greeting and nothing else
C17_ResumeWhileListening ==
    /\ hubLast.cmd = "RESUME_LISTENING" /\ ~hubLast.binary
    /\ listening_event /\ gateHist = <<>>
    /\ connected_clients = Clients
    /\ \A c \in Clients : hubIn[c] = <<AckMsg, StateMsg(TRUE)>>

\* status st is among the statuses of the reply
InReply(st) == \E i \in 1..Len(rReply) : rReply[i] = st

\* C18: when a valid request has been served and the handler is back at
\* reading, the reply holds "error" and no "done" if the engine raised, and
\* ends with "done" and holds no "error" if it did not.
C18_EngineFailureRepliesErrorNotDone ==
    (rPc = "idle" /\ rReq = "valid") =>
        IF rFail
        THEN InReply("error") /\ ~InReply("done")
        ELSE rReply # <<>> /\ Last(rReply) = "done" /\ ~InReply("error")

\* C19: a malformed message is answered with an error status and the
\* handler goes on reading the same connection (unless the connection itself
\* is gone).
C19_MalformedMessageKeepsConnection ==
    (rReq \in REQUEST_KINDS \ {"valid"} /\ rPc # "closed") =>
        (rPc = "idle" /\ rReply = <<"error">>)

Units(text) ==
    LET cut == split_sentences(text)
    IN  cut.sentences \o (IF Strip(cut.remainder) # <<>> THEN <<Strip(cut.remainder)>> ELSE <<>>)

\* C21: the sentence units of a response are submitted to synthesis one by
\* one (each complete sentence as soon as the text holds it, the trailing
\* partial buffer at the end): no synthesis request carries more than one unit.
C21_SentenceUnitsSubmittedOneByOne ==
    \A i \in 1..Len(playTexts) : Len(Units(playTexts[i])) = 1

\* C24: when the generation call of a turn failed (the LLM server was not
\* reached, answered with a status other than 200, or its backend raised),
\* no synthesis request is issued and nothing is written to the audio device.
C24_FailedGenerationPlaysNothing ==
    genOutcome \in GEN_FAILURES =>
        (playCalls = 0 /\ playTexts = <<>> /\ playOut = <<>>)

\* C22: every client receives the transcripts in the order the worker
\* handed them to broadcast_text: no client receives the text of a later
\* broadcast before the text of an earlier one.
C22_TranscriptsReceivedInOrder ==
    \A c \in Clients : \A i, j \in 1..Len(hubIn[c]) :
        (i < j /\ hubIn[c][i].kind = "text" /\ hubIn[c][j].kind = "text") =>
            hubIn[c][i].val < hubIn[c][j].val

\* C23: a transcript is handed to broadcast_text only for a response that
\* has a result with an alternative, is final, and whose text is not blank;
\* what is handed over is that text stripped. Responses without results,
\* without alternatives, interim ones and ones with empty or blank text hand
\* nothing over.
C23_OnlyFinalNonBlankBroadcast ==
    /\ [](\A i \in 1..Len(scheduled) :
             scheduled[i] # <<>> /\ Strip(scheduled[i]) = scheduled[i])
    /\ [][scheduled' # scheduled =>
            /\ lastResp'.results /\ lastResp'.alternatives /\ lastResp'.is_final
            /\ Strip(lastResp'.transcript) # <<>>
            /\ scheduled' = Append(scheduled, Strip(lastResp'.transcript))]_vars

\* a final response whose text stands between blanks was handled and its
\* stripped text was handed over
C23_StrippedFinalHandedOver ==
    /\ lastResp.is_final /\ lastResp.transcript = <<" ", "a", " ">>
    /\ scheduled # <<>> /\ Last(scheduled) = <<"a">>
    /\ frames = <<>>

C26_ReadErrorDropsOneFrame ==
    [][(gen = "read" /\ reported # "read_error" /\ reported' = "read_error") =>
          (gen' = "check" /\ wPc' = "session" /\ sessions' = sessions)]_vars

\* C27: once stop_event is set the worker leaves its loop and returns, and
\* the capture stream is not left open.
C27_WorkerReturnsAfterShutdown ==
    stop_event ~> (wPc = "returned" /\ capStream # "open")

\* the frames hold a speech frame directly followed by a non-speech frame:
\* the least a speech run of the minimum duration followed by K non-speech
\* frames contains, whatever the minimum and K are
SpeechThenSilence(fs) ==
    \E i \in 1..(Len(fs) - 1) : fs[i] = "speech" /\ fs[i + 1] = "silence"

\* C28: an utterance is emitted only when the frames captured since the last
\* one hold a speech run of the minimum duration followed by K consecutive
\* non-speech frames.
C28_UtteranceOnlyAfterSpeechThenSilence ==
    [][scheduled' # scheduled => SpeechThenSilence(frames)]_vars

\* C29: when opening the capture device failed at startup the process does
\* not go on serving: from then on no client is accepted.
C29_NoClientAcceptedAfterDeviceFailure ==
    [][reported = "fatal" => connected_clients' \subseteq connected_clients]_vars

\* C30: a task holds an admission permit only while its call into the
\* synthesis engine is running, never while it sends the header, the audio
\* or the "done" message to its client.
C30_PermitHeldOnlyDuringEngineCall ==
    \A t \in Tasks : t \in Held => t \in EngineCalls

\* the sentence ends of a unit are its last characters: none stands before
\* a character that is not one
EndsInOneRun(unit) ==
    /\ unit # <<>>
    /\ unit[Len(unit)] \in SENTENCE_END
    /\ \A i, j \in 1..Len(unit) :
          (i < j /\ unit[i] \in SENTENCE_END) => unit[j] \in SENTENCE_END

\* the text is the end of the buffer
IsSuffix(text, whole) ==
    /\ Len(text) <= Len(whole)
    /\ text = SubSeq(whole, Len(whole) - Len(text) + 1, Len(whole))

\* C31: every unit _split_sentences returns is non-empty, ends with a run of
\* sentence ends and holds no sentence end before that run; the run is
\* maximal (the remainder does not go on with a sentence end) and the
\* remainder is the end of the buffer.
C31_UnitsEndInOneTerminalRun ==
    /\ \A i \in 1..Len(lastSplit.sentences) : EndsInOneRun(lastSplit.sentences[i])
    /\ IsSuffix(lastSplit.remainder, lastInput)
    /\ (lastSplit.sentences # <<>> /\ lastSplit.remainder # <<>>) =>
          lastSplit.remainder[1] \notin SENTENCE_END

RECURSIVE Concat(_)
\* the texts of a list, one after the other
Concat(texts) ==
    IF texts = <<>> THEN <<>> ELSE Head(texts) \o Concat(Tail(texts))

\* the characters of a text that are not whitespace, in order
IsSolid(c) == c \notin WHITESPACE
Solid(text) == SelectSeq(text, IsSolid)

\* C32: _split_sentences loses no text: the characters of the buffer that
\* are not whitespace are, in order, those of the units followed by those
\* of the remainder.
C32_NoTextLost ==
    Solid(lastInput) = Solid(Concat(lastSplit.sentences) \o lastSplit.remainder)

\* C33: however the response is cut into fragments, splitting the growing
\* buffer after each fragment and flushing the last remainder gives the
\* units that splitting the whole response at once gives.
C33_FragmentationDoesNotMatter ==
    splitPc = "flushed" => accUnits = Units(srcText)

\* C34: the retry counter is never reset: no step lowers it, a successful
\* connection included, so the abnormal disconnects and errors of the whole
\* run add up and the one that brings the counter to max_retries stops the
\* controller, whatever the connections in between did.
C34_RetryCounterNeverReset ==
    [][/\ retry_count' >= retry_count
       /\ (ctlPc = "connecting" /\ ctlPc' = "on_connect") => retry_count' = retry_count
       /\ (retry_count' > retry_count /\ retry_count' = max_retries) => ctlPc' = "stopped"]_vars

\* the third abnormal disconnect has stopped the controller although the
\* connection it ended was a successful reconnection on which a whole turn
\* had been processed
C34_StoppedAfterGoodReconnections ==
    /\ ctlPc = "stopped" /\ retry_count = max_retries /\ ctlDiag = "closed_error"
    /\ Len(cmdLog) >= 3
    /\ turnLog = <<"PAUSE", "GEN", "PLAY", "RESUME">>

\* C35: every STATE line the server sends to a client names the state the
\* gate has when the line is sent, the line sent on connection included.
C35_StateLineEqualsGate ==
    [][\A c \in Clients :
          \A i \in (Len(hubIn[c]) + 1)..Len(hubIn'[c]) :
              hubIn'[c][i] \in {StateMsg(TRUE), StateMsg(FALSE)} =>
                  hubIn'[c][i] = StateMsg(listening_event')]_vars

\* C36: audio_generator yields a chunk to the recognizer only while the gate
\* is LISTENING at the moment of the yield.
C36_NoChunkForwardedWhilePaused ==
    [][(agPc = "read" /\ agPc' = "check") => listening_event]_vars

\* C37: while the inference of a call runs, the weights the modules of the
\* shared model hold and the embedding registered are those of the speaker
\* the call asked for, whatever the capacity.
C37_InferenceUsesRequestedSpeaker ==
    \A t \in Tasks :
        vPc[t] = "infer" =>
            /\ lora_llm = vSpeaker[t] /\ lora_flow = vSpeaker[t]
            /\ vSpeaker[t] \in spk2info

\* C38: CosyVoiceEngine is constructed at most once, the global once set is
\* never replaced, and every call of _get_engine that returned has returned
\* that one instance.
C38_EngineConstructedOnce ==
    /\ [](/\ constructed <= 1
          /\ tts_engine = constructed
          /\ \A t \in Tasks : ePc[t] \in RETURNED => eGot[t] = tts_engine /\ eGot[t] # 0)
    /\ [][tts_engine # 0 => tts_engine' = tts_engine]_vars

\* the warm-up task and two first requests called _get_engine before the
\* engine existed: one of them built it, the two others waited for the lock
\* and were given the instance the first had built
C38_WaitersGotTheBuiltEngine ==
    /\ constructed = 1
    /\ \E t \in Tasks :
          /\ ePc[t] = "return_32"
          /\ \A u \in Tasks \ {t} : ePc[u] = "return_28" /\ eGot[u] = eGot[t]

\* no piece of audio is on the device twice
NoAudioTwice ==
    \A i, j \in 1..Len(playOut) : i # j => playOut[i] # playOut[j]

\* a step at the end of a call whose chunks were played as they came
\* writes nothing
NoRewriteAfterRealtime ==
    (playPc = "finish" /\ played_realtime) => playOut' = playOut

\* C39 as stated: without face animation every chunk received is written
\* to the device at most once, the joined audio is not written after chunks
\* were played as they came, and the buffer received in batch mode is
\* written exactly once.
C39_AtMostOnceAndBatchExactlyOnce ==
    /\ [](~ENABLE_FACE_ANIMATION =>
            /\ NoAudioTwice
            /\ (playMode = "batch" /\ playPc = "done" /\ audio_chunks # <<>>) =>
                   playOut = <<Audio(playCalls, 1)>>)
    /\ [][~ENABLE_FACE_ANIMATION => NoRewriteAfterRealtime]_vars

\* C39 amended: without face animation every chunk received is written to
\* the device at most once and the joined audio is not written after chunks
\* were played as they came; the buffer received in batch mode is written
\* by the one write at the end of the call and by nothing else, so it is on
\* the device once, or not at all when the call ended before that write or
\* the write failed.
C39_AtMostOnceAndBatchOneWrite ==
    /\ [](~ENABLE_FACE_ANIMATION =>
            /\ NoAudioTwice
            /\ (playMode = "batch" /\ playPc = "done" /\ audio_chunks # <<>>) =>
                   playOut \in {<<>>, <<Audio(playCalls, 1)>>})
    /\ [][~ENABLE_FACE_ANIMATION =>
            /\ NoRewriteAfterRealtime
            /\ (playMode = "batch" /\ Len(playOut') > Len(playOut)) =>
                  (playPc = "finish" /\ playOut' = <<Audio(playCalls, 1)>>)]_vars

\* without face animation a streamed reply of two chunks was played as it
\* came and the call has ended: each chunk is on the device once
C39_StreamedChunksOnceEach ==
    /\ ~ENABLE_FACE_ANIMATION /\ playMode = "stream" /\ playPc = "done"
    /\ played_realtime /\ Len(audio_chunks) = 2
    /\ playOut = <<Audio(1, 1), Audio(1, 2)>>

====
